---- MODULE Spec2Model ----
(***************************************************************************)
(* A model of the bidimensional library: the cubic spline engine           *)
(* (functions/spline.py) and the circumcircle kernel (polygons/triangle.py *)
(* and circumcircle.py).                                                   *)
(*                                                                         *)
(* Numbers.  The library computes with Python/numpy floats.  The model     *)
(* computes with exact rationals <<num, den>> (den > 0, lowest terms), and *)
(* with "surds" c * (sqrt n)^e for the few places where the code takes a   *)
(* square root.  Inputs are small integers, for which the float            *)
(* comparisons the code makes (==, <=, bisect) agree with the exact ones.  *)
(***************************************************************************)
EXTENDS Integers, Sequences, FiniteSets, TLC

(***************************************************************************)
(* Bounds of the model.                                                    *)
(***************************************************************************)
\* Coordinates of input points range over 0..MaxCoord.
MaxCoord == 1
\* Splines are built from 0..MaxPoints points.
MaxPoints == 3
\* Generation steps are the halves -1/2, 0, 1/2, ..., MaxStepHalves/2.
MaxStepHalves == 3

(***************************************************************************)
(* Exact rational arithmetic (stands for float +, -, *, /).                *)
(***************************************************************************)
Abs(i) == IF i < 0 THEN -i ELSE i

RECURSIVE GCD(_, _)
GCD(m, n) == IF n = 0 THEN m ELSE GCD(n, m % n)

\* The rational n/d in lowest terms with a positive denominator (d # 0).
\* n/d with the common factor g divided out and a positive denominator.
Lowest(n, d, g) ==
    IF d < 0 THEN <<(-n) \div g, (-d) \div g>> ELSE <<n \div g, d \div g>>

Rat(n, d) == Lowest(n, d, GCD(Abs(n), Abs(d)))

Q(i) == <<i, 1>>
Zero == Q(0)
One == Q(1)

\* Sums and products divide out common factors before multiplying, which
\* keeps the intermediate integers small.
RAddOver(p, q, g) ==
    Rat(p[1] * (q[2] \div g) + q[1] * (p[2] \div g), (p[2] \div g) * q[2])
RAdd(p, q) == RAddOver(p, q, GCD(p[2], q[2]))
RNeg(p) == <<-p[1], p[2]>>
RSub(p, q) == RAdd(p, RNeg(q))
RMulOver(p, q, g1, g2) ==
    IF p[1] = 0 \/ q[1] = 0 THEN <<0, 1>>
    ELSE <<(p[1] \div g1) * (q[1] \div g2), (p[2] \div g2) * (q[2] \div g1)>>
RMul(p, q) == RMulOver(p, q, GCD(Abs(p[1]), q[2]), GCD(Abs(q[1]), p[2]))
\* The reciprocal of q # 0.
RInv(q) == IF q[1] < 0 THEN <<-q[2], -q[1]>> ELSE <<q[2], q[1]>>
\* q # Zero is checked by every caller (the code would raise or yield inf/nan).
RDiv(p, q) == RMul(p, RInv(q))
\* Denominators are positive, so the order is that of the cross products.
RLt(p, q) == p[1] * q[2] < q[1] * p[2]
RLe(p, q) == p[1] * q[2] <= q[1] * p[2]
RSq(p) == RMul(p, p)
RCube(p) == RMul(p, RMul(p, p))

\* math.ceil of a rational.
RCeil(p) == -((-p[1]) \div p[2])

(***************************************************************************)
(* Square roots.  ISqrt(n) is the integer part of sqrt(n), n >= 0.         *)
(***************************************************************************)
RECURSIVE ISqrtBetween(_, _, _)
ISqrtBetween(n, lo, hi) ==
    IF lo >= hi THEN lo
    ELSE LET mid == (lo + hi + 1) \div 2
         IN  IF mid <= n \div mid THEN ISqrtBetween(n, mid, hi)
             ELSE ISqrtBetween(n, lo, mid - 1)

ISqrt(n) == IF n < 2 THEN n ELSE ISqrtBetween(n, 1, n)

IsSquare(n) == n >= 0 /\ ISqrt(n) * ISqrt(n) = n

\* A surd c * (sqrt n)^e with c, n rationals, n > 0 and e in {-1, 0, 1},
\* in normal form: e = 0 and n = 1 when c = 0 or n is the square of a rational.
Surd(c, e, n) ==
    IF c = Zero \/ e = 0 THEN [c |-> c, e |-> 0, n |-> One]
    ELSE IF IsSquare(n[1]) /\ IsSquare(n[2])
         THEN LET r == Rat(ISqrt(n[1]), ISqrt(n[2]))
              IN  [c |-> IF e = 1 THEN RMul(c, r) ELSE RDiv(c, r),
                   e |-> 0, n |-> One]
         ELSE [c |-> c, e |-> e, n |-> n]

\* A rational as a surd.
SQ(p) == Surd(p, 0, One)

\* Product and quotient of two surds over the same radicand.
SMul(u, v) ==
    LET n == IF u.e # 0 THEN u.n ELSE v.n
        e == u.e + v.e
        c == RMul(u.c, v.c)
    IN  IF e = 2 THEN SQ(RMul(c, n))
        ELSE IF e = -2 THEN SQ(RDiv(c, n))
        ELSE Surd(c, e, n)

SInv(u) == [c |-> RDiv(One, u.c), e |-> -u.e, n |-> u.n]
SDiv(u, v) == SMul(u, SInv(v))

(***************************************************************************)
(* Sequence helpers.                                                       *)
(***************************************************************************)
\* np.diff: the differences of consecutive elements.
Diff(s) == [i \in 1..(IF Len(s) = 0 THEN 0 ELSE Len(s) - 1) |-> RSub(s[i + 1], s[i])]


(***************************************************************************)
(* _UnidimensionalSpline (functions/spline.py).  Arrays are sequences, so  *)
(* the code's 0-based element i is element i + 1 here; the matrix keeps    *)
(* the code's 0-based <<row, column>> indices.                             *)
(***************************************************************************)
\* What a call returns: Python's None, a number, or a raised IndexError.
None == [kind |-> "None"]
Value(v) == [kind |-> "value", val |-> v]
IndexError == [kind |-> "IndexError"]

\* Variant of CalcMatrixALoop: the entry above the diagonal of row i + 1 is
\* written with the gap of pass i as well.
RECURSIVE CalcMatrixALoopPrevious(_, _, _, _)
CalcMatrixALoopPrevious(matrix, i, x_dim, x_diff) ==
    IF i >= x_dim - 1 THEN matrix
    ELSE LET m1 == IF i # x_dim - 2
                   THEN [matrix EXCEPT ![<<i + 1, i + 1>>] =
                            RMul(Q(2), RAdd(x_diff[i + 1], x_diff[i + 2]))]
                   ELSE matrix
             m2 == [m1 EXCEPT ![<<i + 1, i>>] = x_diff[i + 1]]
             m3 == IF i # x_dim - 2
                   THEN [m2 EXCEPT ![<<i + 1, i + 2>>] = x_diff[i + 1]]
                   ELSE m2
         IN  CalcMatrixALoopPrevious(m3, i + 1, x_dim, x_diff)

\* One pass of the loop body of __calc_matrix_a for index i.
RECURSIVE CalcMatrixALoop(_, _, _, _)
CalcMatrixALoop(matrix, i, x_dim, x_diff) ==
    IF i >= x_dim - 1 THEN matrix
    ELSE LET m1 == IF i # x_dim - 2
                   THEN [matrix EXCEPT ![<<i + 1, i + 1>>] =
                            RMul(Q(2), RAdd(x_diff[i + 1], x_diff[i + 2]))]
                   ELSE matrix
             m2 == [m1 EXCEPT ![<<i + 1, i>>] = x_diff[i + 1]]
             m3 == [m2 EXCEPT ![<<i, i + 1>>] = x_diff[i + 1]]
         IN  CalcMatrixALoop(m3, i + 1, x_dim, x_diff)

\* Variant of CalcMatrixA: matrix[0, 1], written by the loop, is not cleared.
CalcMatrixAFirstRowKept(x_dim, x_diff) ==
    IF x_dim < 2 THEN [err |-> "IndexError: index out of bounds"]
    ELSE LET zeros == [rc \in (0..(x_dim - 1)) \X (0..(x_dim - 1)) |-> Zero]
             m0 == [zeros EXCEPT ![<<0, 0>>] = One]
             m1 == CalcMatrixALoop(m0, 0, x_dim, x_diff)
             m3 == [m1 EXCEPT ![<<x_dim - 1, x_dim - 2>>] = Zero]
             m4 == [m3 EXCEPT ![<<x_dim - 1, x_dim - 1>>] = One]
         IN  [err |-> "none", m |-> m4]

\* __calc_matrix_a: the matrix A of the system, or the IndexError numpy raises
\* for matrix[0, 0] (x_dim = 0) or matrix[0, 1] (x_dim = 1).
CalcMatrixA(x_dim, x_diff) ==
    IF x_dim < 2 THEN [err |-> "IndexError: index out of bounds"]
    ELSE LET zeros == [rc \in (0..(x_dim - 1)) \X (0..(x_dim - 1)) |-> Zero]
             m0 == [zeros EXCEPT ![<<0, 0>>] = One]
             m1 == CalcMatrixALoop(m0, 0, x_dim, x_diff)
             m2 == [m1 EXCEPT ![<<0, 1>>] = Zero]
             m3 == [m2 EXCEPT ![<<x_dim - 1, x_dim - 2>>] = Zero]
             m4 == [m3 EXCEPT ![<<x_dim - 1, x_dim - 1>>] = One]
         IN  [err |-> "none", m |-> m4]

\* __calc_matrix_b: the right-hand side; entry i + 1 (0-based) is written by
\* pass i of the loop, for i in 0..x_dim-3, every other entry stays 0.
CalcMatrixB(x_dim, x_diff, d) ==
    [j \in 1..x_dim |->
        IF 2 <= j /\ j <= x_dim - 1
        THEN RSub(RDiv(RMul(Q(3), RSub(d[j + 1], d[j])), x_diff[j]),
                  RDiv(RMul(Q(3), RSub(d[j], d[j - 1])), x_diff[j - 1]))
        ELSE Zero]

\* np.linalg.solve, as Gauss-Jordan elimination on the augmented matrix M
\* (columns 0..n-1 hold A, column n the right-hand side).
\* The rows of column k that can serve as pivot, and the first of them.
PivotRows(M, k, n) == {r \in k..(n - 1) : M[<<r, k>>] # Zero}
Pivot(cand) == CHOOSE r \in cand : \A s \in cand : r <= s

\* Rows k and p exchanged.
SwapRows(M, k, p) ==
    [rc \in DOMAIN M |->
        IF rc[1] = k THEN M[<<p, rc[2]>>]
        ELSE IF rc[1] = p THEN M[<<k, rc[2]>>]
        ELSE M[rc]]

\* Row k divided by its pivot.
ScaleRow(M, k) ==
    [rc \in DOMAIN M |-> IF rc[1] = k THEN RDiv(M[rc], M[<<k, k>>]) ELSE M[rc]]

\* Column k cleared in every row but k.
Eliminate(M, k) ==
    [rc \in DOMAIN M |->
        IF rc[1] = k THEN M[rc]
        ELSE RSub(M[rc], RMul(M[<<rc[1], k>>], M[<<k, rc[2]>>]))]

\* The solution, eliminating from column k on.
RECURSIVE LinalgSolve(_, _, _)
LinalgSolve(M, k, n) ==
    IF k = n THEN [err |-> "none", x |-> [i \in 1..n |-> M[<<i - 1, n>>]]]
    ELSE IF PivotRows(M, k, n) = {} THEN [err |-> "LinAlgError: Singular matrix"]
    ELSE LinalgSolve(
             Eliminate(ScaleRow(SwapRows(M, k, Pivot(PivotRows(M, k, n))), k), k),
             k + 1, n)

\* The coefficients a and c of __init__, from b (the solution of the system).
\* Variant of CoefficientC: b[i+1] and b[i] are weighted alike.
CoefficientCEqualWeights(x_diff, d_diff, b) ==
    [i \in 1..Len(x_diff) |->
        RSub(RDiv(d_diff[i], x_diff[i]),
             RDiv(RMul(x_diff[i], RAdd(b[i + 1], b[i])), Q(3)))]

CoefficientC(x_diff, d_diff, b) ==
    [i \in 1..Len(x_diff) |->
        RSub(RDiv(d_diff[i], x_diff[i]),
             RDiv(RMul(x_diff[i], RAdd(b[i + 1], RMul(Q(2), b[i]))), Q(3)))]

CoefficientA(x_diff, b_diff) ==
    [i \in 1..Len(x_diff) |-> RDiv(b_diff[i], RMul(Q(3), x_diff[i]))]

\* The system A b = B as an augmented matrix.
Augmented(x_dim, A, rhs) ==
    [rc \in (0..(x_dim - 1)) \X (0..x_dim) |->
        IF rc[2] = x_dim THEN rhs[rc[1] + 1] ELSE A[rc]]

\* The object __init__ leaves, from the solution of the system.
Fitted(x, d, x_diff, sol) ==
    IF sol.err # "none" THEN [status |-> "error", error |-> sol.err]
    ELSE [status |-> "ok", x |-> x, x_dim |-> Len(x),
          a |-> CoefficientA(x_diff, Diff(sol.x)),
          b |-> SubSeq(sol.x, 1, Len(x) - 1),
          c |-> CoefficientC(x_diff, Diff(d), sol.x),
          d |-> SubSeq(d, 1, Len(x) - 1), pos |-> None]

\* __init__ from the matrix A on.
Fit(x, d, x_diff, A) ==
    IF A.err # "none" THEN [status |-> "error", error |-> A.err]
    ELSE Fitted(x, d, x_diff,
                LinalgSolve(Augmented(Len(x), A.m, CalcMatrixB(Len(x), x_diff, d)),
                            0, Len(x)))

\* _UnidimensionalSpline.__init__(x, y): the fitted spline, or the error raised.
UnidimensionalSpline(x, y) ==
    IF Len(x) # Len(y)
    THEN [status |-> "error", error |-> "ValueError: x and y must have the same shape"]
    ELSE Fit(x, y, Diff(x), CalcMatrixA(Len(x), Diff(x)))

\* __search_index: bisect(self.x, x) - 1, a 0-based index; bisect (bisect_right)
\* is the number of elements of the sorted list that are <= x.
SearchIndex(s, t) == Cardinality({k \in 1..Len(s.x) : RLe(s.x[k], t)}) - 1


\* The range test of position and of the two derivatives.
InRange(s, t) == RLe(s.x[1], t) /\ RLe(t, s.x[Len(s.x)])

\* The three polynomials, for the coefficients of a segment and the offset dx.
Cubic(a, b, c, d, dx) ==
    RAdd(RAdd(RMul(a, RCube(dx)), RMul(b, RSq(dx))), RAdd(RMul(c, dx), d))
CubicD1(a, b, c, dx) ==
    RAdd(RAdd(RMul(Q(3), RMul(a, RSq(dx))), RMul(Q(2), RMul(b, dx))), c)
CubicD2(a, b, dx) == RAdd(RMul(Q(6), RMul(a, dx)), RMul(Q(2), b))

\* The body of position, first_derivative and second_derivative for the
\* 0-based segment index i.  Element i of a, b, c, d exists for
\* 0 <= i <= x_dim - 2.
PositionAt(s, t, i) ==
    IF i + 1 > Len(s.a) THEN IndexError
    ELSE Value(Cubic(s.a[i + 1], s.b[i + 1], s.c[i + 1], s.d[i + 1],
                     RSub(t, s.x[i + 1])))
FirstDerivativeAt(s, t, i) ==
    IF i + 1 > Len(s.a) THEN IndexError
    ELSE Value(CubicD1(s.a[i + 1], s.b[i + 1], s.c[i + 1], RSub(t, s.x[i + 1])))
SecondDerivativeAt(s, t, i) ==
    IF i + 1 > Len(s.a) THEN IndexError
    ELSE Value(CubicD2(s.a[i + 1], s.b[i + 1], RSub(t, s.x[i + 1])))

\* position(x).
Position(s, t) ==
    IF ~InRange(s, t) THEN None ELSE PositionAt(s, t, SearchIndex(s, t))

\* first_derivative(x).
FirstDerivative(s, t) ==
    IF ~InRange(s, t) THEN None ELSE FirstDerivativeAt(s, t, SearchIndex(s, t))

\* Variant of SecondDerivative: the upper end of the range is not tested.
SecondDerivativeNoUpper(s, t) ==
    IF ~RLe(s.x[1], t) THEN None ELSE SecondDerivativeAt(s, t, SearchIndex(s, t))

\* second_derivative(x).
SecondDerivative(s, t) ==
    IF ~InRange(s, t) THEN None ELSE SecondDerivativeAt(s, t, SearchIndex(s, t))

\* self.pos as position(x) computes it: the cubic of every segment at the
\* offset dx of the segment found.
PosArray(s, dx) ==
    Value([k \in 1..Len(s.a) |-> Cubic(s.a[k], s.b[k], s.c[k], s.d[k], dx)])

\* The pos attribute after a call of position(x): set by the first call whose
\* argument is in range (before the indexing that may fail), kept afterwards.
PosAfter(s, t) ==
    IF ~InRange(s, t) \/ s.pos # None THEN s.pos
    ELSE PosArray(s, RSub(t, s.x[SearchIndex(s, t) + 1]))

(***************************************************************************)
(* Spline (functions/spline.py).  A Coordinate is a pair <<x, y>>.         *)
(***************************************************************************)
\* np.hypot of two integer-valued differences whose hypotenuse is an integer
\* (the input sequences of the model are chosen so).
Hypot(p, q) == Q(ISqrt(p[1] * p[1] + q[1] * q[1]))

RECURSIVE CumSum(_)
CumSum(s) ==
    IF Len(s) = 0 THEN <<>>
    ELSE LET front == CumSum(SubSeq(s, 1, Len(s) - 1))
         IN  Append(front, IF Len(front) = 0 THEN s[1]
                           ELSE RAdd(front[Len(front)], s[Len(s)]))

\* _compute_knots: 0 followed by the cumulative distances between the points.
ComputeKnots(x, y) ==
    LET dx == Diff(x)
        dy == Diff(y)
    IN  <<Zero>> \o CumSum([i \in 1..Len(dx) |-> Hypot(dx[i], dy[i])])

\* Variant of ArangeLen: the length rounded down instead of up.
ArangeLenFloor(start, stop, step) ==
    LET q == RDiv(RSub(stop, start), step)
        len == q[1] \div q[2]
    IN  IF len > 0 THEN len ELSE 0

\* The length of np.arange(start, stop, step) for step # 0.
ArangeLen(start, stop, step) ==
    LET len == RCeil(RDiv(RSub(stop, start), step))
    IN  IF len > 0 THEN len ELSE 0

\* np.arange(start, stop, step) for step # 0.
Arange(start, stop, step) ==
    [k \in 1..ArangeLen(start, stop, step) |-> RAdd(start, RMul(Q(k - 1), step))]

\* The value numpy gives for a division by zero (nan or +-inf).
NaN == [c |-> Zero, e |-> 0, n |-> Zero]

\* _compute_curvature at t (both derivatives exist at t).
\* (dy2 * dx1 - dx2 * dy1) / math.sqrt(dx1**2 + dy1**2).
Curvature(dx1, dx2, dy1, dy2) ==
    IF RAdd(RSq(dx1), RSq(dy1)) = Zero THEN NaN
    ELSE Surd(RSub(RMul(dy2, dx1), RMul(dx2, dy1)), -1, RAdd(RSq(dx1), RSq(dy1)))

ComputeCurvature(spline_x, spline_y, t) ==
    Curvature(FirstDerivative(spline_x, t).val, SecondDerivative(spline_x, t).val,
              FirstDerivative(spline_y, t).val, SecondDerivative(spline_y, t).val)

\* _compute_yaw at t: math.atan2 of the two first derivatives, kept symbolic.
ComputeYaw(spline_x, spline_y, t) ==
    [atan2 |-> <<FirstDerivative(spline_y, t).val,
                 FirstDerivative(spline_x, t).val>>]

\* _compute_position at t.
ComputePosition(spline_x, spline_y, t) ==
    <<Position(spline_x, t), Position(spline_y, t)>>

\* The three result arrays for the samples knots_ext, or the IndexError of
\* data[:, 0] on an empty array, or of a query past the last segment.
ResultsOn(spline_x, spline_y, knots_ext) ==
    IF \E k \in 1..Len(knots_ext) : Position(spline_x, knots_ext[k]) = IndexError
    THEN [err |-> "IndexError: index out of bounds"]
    ELSE IF Len(knots_ext) = 0
    THEN [err |-> "IndexError: too many indices for array"]
    ELSE [err |-> "none",
          positions |-> [k \in 1..Len(knots_ext) |->
              <<ComputePosition(spline_x, spline_y, knots_ext[k])[1].val,
                ComputePosition(spline_x, spline_y, knots_ext[k])[2].val>>],
          curvature |-> [k \in 1..Len(knots_ext) |->
              ComputeCurvature(spline_x, spline_y, knots_ext[k])],
          yaw |-> [k \in 1..Len(knots_ext) |->
              ComputeYaw(spline_x, spline_y, knots_ext[k])]]

\* _compute_results for generation_step # 0.
ComputeResults(spline_x, spline_y, knots, generation_step) ==
    ResultsOn(spline_x, spline_y,
              Arange(knots[1], knots[Len(knots)], generation_step))

\* The errors np.arange raises for a step of 0, depending on the numpy build.
ArangeZeroStepErrors ==
    {"ZeroDivisionError: division by zero",
     "ValueError: Maximum allowed size exceeded"}

\* The error of the generation_step setter (not called by __init__).
StepError == "ValueError: generation_step must be positive."

Failed(e) == [status |-> "error", error |-> e]

\* The object __init__ leaves once both fits and the results are in.
Constructed(x, y, knots, fit_x, fit_y, gen_step, res) ==
    IF res.err # "none" THEN Failed(res.err)
    ELSE [status |-> "ok", x |-> x, y |-> y, knots |-> knots,
          spline_x |-> [fit_x EXCEPT !.pos = PosAfter(fit_x, knots[1])],
          spline_y |-> [fit_y EXCEPT !.pos = PosAfter(fit_y, knots[1])],
          generation_step |-> gen_step,
          positions |-> res.positions,
          curvature |-> res.curvature,
          yaw |-> res.yaw]

\* __init__ from the two fits on.
Construct(x, y, knots, fit_x, fit_y, gen_step, zero_err) ==
    IF fit_x.status = "error" THEN Failed(fit_x.error)
    ELSE IF fit_y.status = "error" THEN Failed(fit_y.error)
    ELSE IF gen_step = Zero THEN Failed(zero_err)
    ELSE Constructed(x, y, knots, fit_x, fit_y, gen_step,
                     ComputeResults(fit_x, fit_y, knots, gen_step))

\* __init__ from the knots on.
ConstructOn(x, y, knots, gen_step, zero_err) ==
    Construct(x, y, knots, UnidimensionalSpline(knots, x),
              UnidimensionalSpline(knots, y), gen_step, zero_err)

\* The x (col = 1) or y (col = 2) values of the coordinates.
Column(coordinates, col) ==
    [i \in 1..Len(coordinates) |-> Q(coordinates[i][col])]

\* Spline.__init__(coordinates, gen_step): the constructed object, or the error
\* raised (zero_err: the error np.arange raises if gen_step = 0).
SplineInit(coordinates, gen_step, zero_err) ==
    ConstructOn(Column(coordinates, 1), Column(coordinates, 2),
                ComputeKnots(Column(coordinates, 1), Column(coordinates, 2)),
                gen_step, zero_err)

(***************************************************************************)
(* Inputs.                                                                 *)
(***************************************************************************)
Points == (0..MaxCoord) \X (0..MaxCoord)

\* The squared distance of two points.
Dist2(p, q) == (p[1] - q[1]) * (p[1] - q[1]) + (p[2] - q[2]) * (p[2] - q[2])

\* The point sequences from which splines are built: consecutive points are
\* distinct and at an integer distance (so that the knots are rationals).
PointSeqs ==
    UNION {{s \in [1..n -> Points] :
              \A i \in 1..(n - 1) :
                  s[i] # s[i + 1] /\ IsSquare(Dist2(s[i], s[i + 1]))}
           : n \in 0..MaxPoints}

Steps == {Rat(k, 2) : k \in (-1)..MaxStepHalves}

\* The arguments of the queries on a spline with the given knots: every
\* multiple of 1/2 from half a unit before the first knot to half a unit after
\* the last one.
QueryArgs(knots) ==
    {Rat(k, 2) : k \in (2 * knots[1][1] - 1)..(2 * knots[Len(knots)][1] + 1)}

(***************************************************************************)
(* State.  Each behaviour follows one object from its construction.        *)
(*                                                                         *)
(* The spline engine: the arguments of the constructor call (args), the    *)
(* Spline object it made or the error it raised (spline), and the call in  *)
(* flight on one of its two unidimensional splines (query).                *)
(*                                                                         *)
(* The triangle kernel: the class and the arguments of the constructor     *)
(* call (given), the object it made or the error it raised (shape), and    *)
(* the result of a call of Triangle.is_collinear in flight (answer).       *)
(***************************************************************************)
VARIABLES args, spline, query, given, shape, answer

svars == <<args, spline, query>>

cvars == <<given, shape, answer>>

vars == <<args, spline, query, given, shape, answer>>

NoQuery == [op |-> "none"]

NoAnswer == [op |-> "none"]

NoShape == [status |-> "none"]

Init ==
    /\ args = [coordinates |-> <<>>, gen_step |-> Zero]
    /\ spline = [status |-> "none"]
    /\ query = NoQuery
    /\ given = [class |-> "none"]
    /\ shape = NoShape
    /\ answer = NoAnswer

\* Spline(coordinates, gen_step).
NewSpline ==
    /\ spline.status = "none"
    /\ \E coordinates \in PointSeqs, gen_step \in Steps, e \in ArangeZeroStepErrors :
          /\ args' = [coordinates |-> coordinates, gen_step |-> gen_step]
          /\ spline' = SplineInit(coordinates, gen_step, e)
    /\ UNCHANGED <<query, cvars>>

Uni(which) == IF which = "x" THEN spline.spline_x ELSE spline.spline_y

\* spline_x.position(t) or spline_y.position(t).
CallPosition ==
    /\ spline.status = "ok" /\ query = NoQuery
    /\ \E which \in {"x", "y"}, t \in QueryArgs(spline.knots) :
          /\ query' = [op |-> "position", which |-> which, t |-> t,
                       out |-> Position(Uni(which), t)]
          /\ spline' = IF which = "x"
                THEN [spline EXCEPT !.spline_x.pos = PosAfter(spline.spline_x, t)]
                ELSE [spline EXCEPT !.spline_y.pos = PosAfter(spline.spline_y, t)]
    /\ UNCHANGED <<args, cvars>>

\* spline_x.first_derivative(t) or spline_y.first_derivative(t).
CallFirstDerivative ==
    /\ spline.status = "ok" /\ query = NoQuery
    /\ \E which \in {"x", "y"}, t \in QueryArgs(spline.knots) :
          query' = [op |-> "first_derivative", which |-> which, t |-> t,
                    out |-> FirstDerivative(Uni(which), t)]
    /\ UNCHANGED <<args, spline, cvars>>

\* spline_x.second_derivative(t) or spline_y.second_derivative(t).
CallSecondDerivative ==
    /\ spline.status = "ok" /\ query = NoQuery
    /\ \E which \in {"x", "y"}, t \in QueryArgs(spline.knots) :
          query' = [op |-> "second_derivative", which |-> which, t |-> t,
                    out |-> SecondDerivative(Uni(which), t)]
    /\ UNCHANGED <<args, spline, cvars>>

\* The caller takes the result of the call.
Return ==
    /\ query # NoQuery
    /\ query' = NoQuery
    /\ UNCHANGED <<args, spline, cvars>>

Next ==
    \/ NewSpline
    \/ CallPosition
    \/ CallFirstDerivative
    \/ CallSecondDerivative
    \/ Return

Spec == Init /\ [][Next]_vars

\* The construction alone, for the properties of the object as constructed.
SpecFit == Init /\ [][NewSpline]_vars

(***************************************************************************)
(* Properties of the spline engine.                                        *)
(***************************************************************************)
LastKnot == spline.knots[Len(spline.knots)]
FirstKnot == spline.knots[1]

\* C1: on a fitted spline with n >= 3 knots, a query at exactly the last knot
\* resolves the segment index to n - 2 and returns a number.
C1_LastKnotQuery ==
    (query # NoQuery /\ Len(spline.knots) >= 3 /\ query.t = LastKnot)
        => /\ SearchIndex(Uni(query.which), query.t) = Len(spline.knots) - 2
           /\ query.out.kind = "value"

\* C2: a spline built from n >= 3 points passes through every input point:
\* position at knot i is the i-th input value, for both coordinates and every
\* i, the last included.
C2_Interpolation ==
    (spline.status = "ok" /\ Len(spline.x) >= 3)
        => \A i \in 1..Len(spline.knots) :
              /\ Position(spline.spline_x, spline.knots[i]) = Value(spline.x[i])
              /\ Position(spline.spline_y, spline.knots[i]) = Value(spline.y[i])

\* C3: constructing a Spline (from 3 or more points) with a step <= 0 fails
\* with the invalid-step error.
C3_InvalidStep ==
    (spline.status # "none" /\ Len(args.coordinates) >= 3
                            /\ RLe(args.gen_step, Zero))
        => (spline.status = "error" /\ spline.error = StepError)

\* C4: constructing a Spline from fewer than 3 points fails: no spline is
\* fitted and no result arrays are produced.
C4_InsufficientPoints ==
    (spline.status # "none" /\ Len(args.coordinates) < 3)
        => spline.status = "error"

\* The signed curvature of a parametric curve at t:
\* (y2*x1 - x2*y1) / (x1^2 + y1^2)^1.5.
CurvatureFormula(dx1, dx2, dy1, dy2) ==
    IF RAdd(RSq(dx1), RSq(dy1)) = Zero THEN NaN
    ELSE Surd(RDiv(RSub(RMul(dy2, dx1), RMul(dx2, dy1)),
                   RAdd(RSq(dx1), RSq(dy1))),
              -1, RAdd(RSq(dx1), RSq(dy1)))

SignedCurvature(spline_x, spline_y, t) ==
    CurvatureFormula(
        FirstDerivative(spline_x, t).val, SecondDerivative(spline_x, t).val,
        FirstDerivative(spline_y, t).val, SecondDerivative(spline_y, t).val)

\* The k-th value (k = 0, 1, ...) of the sample grid.
Sample(k) == RAdd(FirstKnot, RMul(Q(k), spline.generation_step))

\* C5: the stored curvature of every grid sample is the signed curvature
\* (denominator exponent 1.5) at that sample.
C5_Curvature ==
    spline.status = "ok"
        => \A k \in 1..Len(spline.curvature) :
              spline.curvature[k]
                  = SignedCurvature(spline.spline_x, spline.spline_y, Sample(k - 1))

\* C6: the samples are the values knots[0] + k*step strictly below knots[-1],
\* their number is ceil((knots[-1] - knots[0]) / step), and positions, yaw and
\* curvature have that length, entry k belonging to sample k.
C6_SampleGrid ==
    spline.status = "ok"
        => LET n == Len(spline.positions)
           IN  /\ Len(spline.yaw) = n /\ Len(spline.curvature) = n
               /\ \A k \in 0..(n - 1) : RLt(Sample(k), LastKnot)
               /\ RLe(LastKnot, Sample(n))
               /\ n = RCeil(RDiv(RSub(LastKnot, FirstKnot), spline.generation_step))
               /\ \A k \in 0..(n - 1) :
                     /\ spline.positions[k + 1]
                          = <<Position(spline.spline_x, Sample(k)).val,
                              Position(spline.spline_y, Sample(k)).val>>
                     /\ spline.yaw[k + 1]
                          = ComputeYaw(spline.spline_x, spline.spline_y, Sample(k))
                     /\ spline.curvature[k + 1]
                          = ComputeCurvature(spline.spline_x, spline.spline_y, Sample(k))

\* A spline whose step does not divide its length, with two or more samples.
C6_Witness ==
    /\ spline.status = "ok"
    /\ Len(spline.positions) >= 2
    /\ RLt(LastKnot, Sample(Len(spline.positions)))

\* C7: position, first_derivative and second_derivative return None for every
\* argument below the first knot or above the last one.
C7_OutOfRange ==
    (query # NoQuery /\ (RLt(query.t, FirstKnot) \/ RLt(LastKnot, query.t)))
        => query.out = None

\* A second_derivative call above the last knot of a spline with 3 or more
\* knots has returned None.
C7_Witness ==
    /\ query # NoQuery
    /\ query.op = "second_derivative"
    /\ Len(spline.knots) >= 3
    /\ RLt(LastKnot, query.t)
    /\ query.out = None
\* The coefficient vector b as np.linalg.solve returns it (n entries, before
\* __init__ drops the last one), for the knots x and the values d.
SolvedB(x, d) ==
    LinalgSolve(Augmented(Len(x), CalcMatrixA(Len(x), Diff(x)).m,
                          CalcMatrixB(Len(x), Diff(x), d)),
                0, Len(x)).x

\* The second derivative of the last segment of s at the last knot:
\* 6 * a[n-2] * h[n-2] + 2 * b[n-2].
EndSecondDerivative(s) ==
    CubicD2(s.a[Len(s.a)], s.b[Len(s.b)],
            RSub(s.x[Len(s.x)], s.x[Len(s.x) - 1]))

\* The natural boundary condition on the unidimensional spline s fitted to
\* the values d.
NaturalBoundary(s, d) ==
    /\ SolvedB(s.x, d)[1] = Zero
    /\ SolvedB(s.x, d)[Len(s.x)] = Zero
    /\ s.b[1] = Zero
    /\ SecondDerivative(s, s.x[1]) = Value(Zero)
    /\ EndSecondDerivative(s) = Zero

\* C13: for every fitted unidimensional spline with n >= 3 knots the solved
\* vector has b[0] = 0 and b[n-1] = 0, second_derivative(knots[0]) is 0 and the
\* second derivative of the last segment at the end knot is 0.
C13_NaturalBoundary ==
    (spline.status = "ok" /\ Len(spline.knots) >= 3)
        => /\ NaturalBoundary(spline.spline_x, spline.x)
           /\ NaturalBoundary(spline.spline_y, spline.y)

\* A spline fitted through 3 points that is not a straight line (its y
\* coefficients b are not all zero), with second derivative 0 at the first knot.
C13_Witness ==
    /\ spline.status = "ok" /\ Len(spline.knots) = 3
    /\ spline.spline_y.b[2] # Zero
    /\ SecondDerivative(spline.spline_y, FirstKnot) = Value(Zero)

(***************************************************************************)
(* Assignments to the x, y and generation_step properties of a Spline.     *)
(***************************************************************************)
\* The lists assigned to x and y: the empty list and the two lists of
\* coordinates the object was constructed from.
AssignedLists ==
    {<<>>, Column(args.coordinates, 1), Column(args.coordinates, 2)}

\* spline.x = value and spline.y = value for a list of numbers: self._x or
\* self._y is replaced.
SetXTo(obj, value) == [obj EXCEPT !.x = value]
SetYTo(obj, value) == [obj EXCEPT !.y = value]

\* Variant of SetGenerationStepTo: the results are computed again with the
\* new step.
SetGenerationStepResampled(obj, value) ==
    IF RLe(value, Zero) THEN obj
    ELSE [obj EXCEPT !.generation_step = value,
                     !.positions = ComputeResults(obj.spline_x, obj.spline_y,
                                                  obj.knots, value).positions]

\* spline.generation_step = value for a number: a value <= 0 raises the
\* ValueError and stores nothing, any other value replaces
\* self._generation_step.
SetGenerationStepTo(obj, value) ==
    IF RLe(value, Zero) THEN obj ELSE [obj EXCEPT !.generation_step = value]

SetX ==
    /\ spline.status = "ok"
    /\ \E value \in AssignedLists : spline' = SetXTo(spline, value)
    /\ UNCHANGED <<args, query, cvars>>

SetY ==
    /\ spline.status = "ok"
    /\ \E value \in AssignedLists : spline' = SetYTo(spline, value)
    /\ UNCHANGED <<args, query, cvars>>

SetGenerationStep ==
    /\ spline.status = "ok"
    /\ \E value \in Steps : spline' = SetGenerationStepTo(spline, value)
    /\ UNCHANGED <<args, query, cvars>>

NextSet ==
    \/ NewSpline
    \/ SetX
    \/ SetY
    \/ SetGenerationStep

SpecSet == Init /\ [][NextSet]_vars

\* What a fit and a sampling compute: the knots, the two unidimensional
\* splines and the three result arrays.
Computed(obj) ==
    <<obj.knots, obj.spline_x, obj.spline_y,
      obj.positions, obj.yaw, obj.curvature>>

\* C14: an assignment to x, y or generation_step of a constructed Spline
\* leaves knots, the coefficients of spline_x and spline_y, positions, yaw and
\* curvature as they were.
C14_NoRefit ==
    [][(spline.status = "ok" /\ spline'.status = "ok")
           => Computed(spline') = Computed(spline)]_vars

\* A Spline whose x was replaced by the empty list and whose step was changed
\* to one that gives another number of samples: the knots and the positions
\* are still those of the construction.
C14_Witness ==
    /\ spline.status = "ok"
    /\ spline.x = <<>> /\ Len(args.coordinates) >= 3
    /\ spline.generation_step # args.gen_step
    /\ spline.knots = ComputeKnots(Column(args.coordinates, 1),
                                   Column(args.coordinates, 2))
    /\ spline.knots # ComputeKnots(spline.x, spline.x)
    /\ Len(spline.positions)
         = ArangeLen(FirstKnot, LastKnot, args.gen_step)
    /\ Len(spline.positions)
         # ArangeLen(FirstKnot, LastKnot, spline.generation_step)

(***************************************************************************)
(* Circumcircle (polygons/triangle.py and circumcircle.py) and the         *)
(* collinearity test of Triangle (polygons/triangle.py).  A Coordinate is  *)
(* a pair <<x, y>> of rationals.                                           *)
(***************************************************************************)
\* Vertices of triangles range over (0..MaxVertexCoord) x (0..MaxVertexCoord).
MaxVertexCoord == 2

Vertices == {<<Q(i), Q(j)>> : i, j \in 0..MaxVertexCoord}

CollinearError == "ValueError: The triangle is collinear"
ZeroDivisionError == "ZeroDivisionError: float division by zero"

\* The slopes appended to the list `slopes`, in the order ab, bc, ac.
Slopes(a, b, c) ==
    LET ab == IF RSub(b[1], a[1]) # Zero
              THEN <<RDiv(RSub(b[2], a[2]), RSub(b[1], a[1]))>> ELSE <<>>
        bc == IF RSub(c[1], b[1]) # Zero
              THEN <<RDiv(RSub(c[2], b[2]), RSub(c[1], b[1]))>> ELSE <<>>
        ac == IF RSub(c[1], a[1]) # Zero
              THEN <<RDiv(RSub(c[2], a[2]), RSub(c[1], a[1]))>> ELSE <<>>
    IN  ab \o bc \o ac

\* Variant of SlopeCollinear: the test for three equal x-coordinates is left out.
SlopeCollinearNoVertical(a, b, c) ==
    \/ (a[2] = b[2] /\ b[2] = c[2])
    \/ LET slopes == Slopes(a, b, c)
       IN  \E i, j \in 1..Len(slopes) : i < j /\ slopes[i] = slopes[j]

\* The test of Circumcircle._ensure_non_collinear and of Triangle.is_collinear
\* in polygons/triangle.py: TRUE when the vertices are found collinear.
SlopeCollinear(a, b, c) ==
    \/ (a[1] = b[1] /\ b[1] = c[1])
    \/ (a[2] = b[2] /\ b[2] = c[2])
    \/ LET slopes == Slopes(a, b, c)
       IN  \E i, j \in 1..Len(slopes) : i < j /\ slopes[i] = slopes[j]

\* a.x*(b.y - c.y) + b.x*(c.y - a.y) + c.x*(a.y - b.y).
SignedArea(a, b, c) ==
    RAdd(RAdd(RMul(a[1], RSub(b[2], c[2])), RMul(b[1], RSub(c[2], a[2]))),
         RMul(c[1], RSub(a[2], b[2])))

\* The test of Circumcircle._ensure_non_collinear in circumcircle.py.
AreaCollinear(a, b, c) == SignedArea(a, b, c) = Zero

\* Coordinate.__sub__ and Coordinate.__bool__.
CoordSub(p, q) == <<RSub(p[1], q[1]), RSub(p[2], q[2])>>
CoordBool(p) == p[1] # Zero \/ p[2] # Zero

\* Variant of AvoidVertical: only the first exchange is made.
AvoidVerticalOnce(abc) ==
    LET a == abc[1]
        b == abc[2]
        c == abc[3]
    IN  IF CoordBool(CoordSub(b, a)) \/ CoordBool(CoordSub(c, a))
           \/ CoordBool(CoordSub(c, b))
        THEN IF CoordSub(b, a)[1] = Zero THEN <<c, b, a>> ELSE abc
        ELSE abc

\* The vertical alignment prevention of _calculate: the vertices <<a, b, c>>
\* after the two conditional exchanges.
AvoidVertical(abc) ==
    LET a == abc[1]
        b == abc[2]
        c == abc[3]
    IN  IF CoordBool(CoordSub(b, a)) \/ CoordBool(CoordSub(c, a))
           \/ CoordBool(CoordSub(c, b))
        THEN LET s1 == IF CoordSub(b, a)[1] = Zero THEN <<c, b, a>> ELSE abc
             IN  IF CoordSub(s1[3], s1[1])[1] = Zero
                 THEN <<s1[2], s1[1], s1[3]>> ELSE s1
        ELSE abc

\* displacement["ab"] (to = b) or displacement["ac"] (to = c).
Displacement(a, to) == <<RSub(to[1], a[1]), RSub(to[2], a[2])>>

\* The unit normal of a displacement d # (0, 0):
\* (d.y / sqrt(d.x^2 + d.y^2), -d.x / sqrt(d.x^2 + d.y^2)).
Unitary(d) ==
    LET n == RAdd(RSq(d[1]), RSq(d[2]))
    IN  <<Surd(d[2], -1, n), Surd(RNeg(d[1]), -1, n)>>

\* vertical["ab"].x and vertical["ac"].x (the y components are 1).
VerticalAb(unitary_ab) == SDiv(unitary_ab[1], unitary_ab[2]).c
VerticalAc(unitary_ac) == RNeg(SDiv(unitary_ac[1], unitary_ac[2]).c)

\* Variant of Midpoint: the displacement is not halved.
MidpointWhole(a, d) == <<RAdd(d[1], a[1]), RAdd(d[2], a[2])>>

\* midpoint["ab"] or midpoint["ac"], from a and the displacement.
Midpoint(a, d) ==
    <<RAdd(RDiv(d[1], Q(2)), a[1]), RAdd(RDiv(d[2], Q(2)), a[2])>>

\* The intersection of the bisector of ab with the height of midpoint["ac"].
Intersection(mid_ab, mid_ac, unitary_ab) ==
    <<RAdd(mid_ab[1],
           SMul(SDiv(SQ(RSub(mid_ac[2], mid_ab[2])), unitary_ab[2]),
                unitary_ab[1]).c),
      mid_ac[2]>>

\* The circumcenter, from the intersection and the two vertical vectors.
Center(inter, mid_ac, v_ab, v_ac) ==
    LET k == RDiv(RSub(mid_ac[1], inter[1]), RAdd(v_ab, v_ac))
    IN  <<RAdd(inter[1], RMul(k, v_ab)), RAdd(inter[2], k)>>

\* math.sqrt of a rational, and the distance of two coordinates.
Sqrt(v) == Surd(One, 1, v)
Distance(p, q) == Sqrt(RAdd(RSq(RSub(p[1], q[1])), RSq(RSub(p[2], q[2]))))

\* _calculate on the vertices abc; collinear is what _ensure_non_collinear
\* finds.  The object's a, b, c, center and radius afterwards, or the error.
Calculate(abc, collinear) ==
    IF collinear THEN Failed(CollinearError)
    ELSE
    LET v == AvoidVertical(abc)
        a == v[1]
        d_ab == Displacement(a, v[2])
        d_ac == Displacement(a, v[3])
    IN  IF d_ab = <<Zero, Zero>> \/ d_ac = <<Zero, Zero>>
           \/ d_ab[1] = Zero \/ d_ac[1] = Zero
        THEN Failed(ZeroDivisionError)
        ELSE
        LET u_ab == Unitary(d_ab)
            u_ac == Unitary(d_ac)
            v_ab == VerticalAb(u_ab)
            v_ac == VerticalAc(u_ac)
            mid_ab == Midpoint(a, d_ab)
            mid_ac == Midpoint(a, d_ac)
            inter == Intersection(mid_ab, mid_ac, u_ab)
        IN  IF RAdd(v_ab, v_ac) = Zero THEN Failed(ZeroDivisionError)
            ELSE LET center == Center(inter, mid_ac, v_ab, v_ac)
                 IN  [status |-> "ok", a |-> a, b |-> v[2], c |-> v[3],
                      center |-> center, radius |-> Distance(a, center)]

\* Circumcircle(a, b, c) of polygons/triangle.py.
TriangleCircumcircle(a, b, c) == Calculate(<<a, b, c>>, SlopeCollinear(a, b, c))

\* Circumcircle(a, b, c) of circumcircle.py.
Circumcircle(a, b, c) == Calculate(<<a, b, c>>, AreaCollinear(a, b, c))

\* Triangle.is_collinear() for the vertices a, b, c.
IsCollinear(a, b, c) == SlopeCollinear(a, b, c)

(***************************************************************************)
(* Operations of the triangle kernel.                                      *)
(***************************************************************************)
\* Circumcircle(a, b, c), the class of polygons/triangle.py.
NewTriangleCircumcircle ==
    /\ shape = NoShape
    /\ \E a, b, c \in Vertices :
          /\ given' = [class |-> "polygons.triangle.Circumcircle",
                       a |-> a, b |-> b, c |-> c]
          /\ shape' = TriangleCircumcircle(a, b, c)
    /\ UNCHANGED <<answer, svars>>

\* Circumcircle(a, b, c), the class of circumcircle.py.
NewCircumcircle ==
    /\ shape = NoShape
    /\ \E a, b, c \in Vertices :
          /\ given' = [class |-> "circumcircle.Circumcircle",
                       a |-> a, b |-> b, c |-> c]
          /\ shape' = Circumcircle(a, b, c)
    /\ UNCHANGED <<answer, svars>>

\* Triangle(a, b, c): the three setters store the vertices.
NewTriangle ==
    /\ shape = NoShape
    /\ \E a, b, c \in Vertices :
          /\ given' = [class |-> "polygons.triangle.Triangle",
                       a |-> a, b |-> b, c |-> c]
          /\ shape' = [status |-> "ok", a |-> a, b |-> b, c |-> c]
    /\ UNCHANGED <<answer, svars>>

\* triangle.is_collinear().
CallIsCollinear ==
    /\ given.class = "polygons.triangle.Triangle" /\ shape.status = "ok"
    /\ answer = NoAnswer
    /\ answer' = [op |-> "is_collinear",
                  out |-> IsCollinear(shape.a, shape.b, shape.c)]
    /\ UNCHANGED <<given, shape, svars>>

\* The caller takes the answer.
ReturnAnswer ==
    /\ answer # NoAnswer
    /\ answer' = NoAnswer
    /\ UNCHANGED <<given, shape, svars>>

NextCircle ==
    \/ NewTriangleCircumcircle
    \/ NewCircumcircle
    \/ NewTriangle
    \/ CallIsCollinear
    \/ ReturnAnswer

SpecCircle == Init /\ [][NextCircle]_vars

(***************************************************************************)
(* Properties of the triangle kernel.                                      *)
(***************************************************************************)
IsCircle ==
    given.class \in {"polygons.triangle.Circumcircle", "circumcircle.Circumcircle"}

GivenCollinear == SignedArea(given.a, given.b, given.c) = Zero

C9_Equidistant ==
    (IsCircle /\ ~GivenCollinear)
        => /\ shape.status = "ok"
           /\ Distance(shape.center, given.a) = shape.radius
           /\ Distance(shape.center, given.b) = shape.radius
           /\ Distance(shape.center, given.c) = shape.radius

\* A triangle with a vertical and a horizontal side, and an irrational radius.
C9_Witness ==
    /\ IsCircle /\ shape.status = "ok"
    /\ given.a[1] = given.b[1] /\ given.a[2] = given.c[2]
    /\ shape.radius.e = 1

Permutations3(a, b, c) ==
    {<<a, b, c>>, <<a, c, b>>, <<b, a, c>>, <<b, c, a>>, <<c, a, b>>, <<c, b, a>>}

\* C10: for a non-collinear triple the Circumcircle of polygons/triangle.py
\* has the same center and radius for all 6 orders of the three points.
C10_Relabeling ==
    (given.class = "polygons.triangle.Circumcircle" /\ ~GivenCollinear)
        => \A p \in Permutations3(given.a, given.b, given.c) :
              LET other == TriangleCircumcircle(p[1], p[2], p[3])
              IN  /\ other.status = "ok" /\ shape.status = "ok"
                  /\ other.center = shape.center
                  /\ other.radius = shape.radius

\* A circle made from a triple whose first side is vertical, so that the
\* orders of the triple differ in the exchanges _calculate makes.
C10_Witness ==
    /\ given.class = "polygons.triangle.Circumcircle" /\ shape.status = "ok"
    /\ given.a[1] = given.b[1]
    /\ shape.a # given.a

(***************************************************************************)
(* Assignments to the a, b and c properties of a Circumcircle.  Here the   *)
(* record `given` is the caller's view: the vertices the caller supplied   *)
(* last for each property, and `answer` is the outcome of the last         *)
(* assignment.                                                             *)
(***************************************************************************)
\* At most MaxAssignments assignments are made on an object.
MaxAssignments == 1

Properties == {"a", "b", "c"}

\* The number of assignments made since the construction, and whether each of
\* them left the vertices non-collinear.
Assignments(g) == IF "sets" \in DOMAIN g THEN g.sets ELSE 0
Proper(g) == IF "proper" \in DOMAIN g THEN g.proper ELSE TRUE

\* The caller's view after assigning v to the property p.
Assigned(g, p, v) ==
    [f \in DOMAIN g \cup {"sets", "proper"} |->
        IF f = "sets" THEN Assignments(g) + 1
        ELSE IF f = "proper"
             THEN Proper(g) /\ ~(SignedArea(IF p = "a" THEN v ELSE g.a,
                                            IF p = "b" THEN v ELSE g.b,
                                            IF p = "c" THEN v ELSE g.c) = Zero)
        ELSE IF f = p THEN v
        ELSE g[f]]

\* self._a = value, self._b = value or self._c = value.
Stored(obj, p, v) == [obj EXCEPT ![p] = v]

\* The object after _calculate has run on it: recalculated, or left as it was
\* when _ensure_non_collinear raised.
Recalculated(obj, res) == IF res.status = "ok" THEN res ELSE obj

\* What the assignment did: "ok", or the error it raised.
Outcome(res) == IF res.status = "ok" THEN "ok" ELSE res.error

\* _calculate of polygons/triangle.py on the object's vertices.
TriangleCalculate(obj) ==
    Calculate(<<obj.a, obj.b, obj.c>>, SlopeCollinear(obj.a, obj.b, obj.c))

\* circumcircle.a = v (b, c) for the class of polygons/triangle.py: the vertex
\* is stored and _calculate is called.
SetTriangleCircumcircle ==
    /\ given.class = "polygons.triangle.Circumcircle" /\ shape.status = "ok"
    /\ Assignments(given) < MaxAssignments
    /\ \E p \in Properties, v \in Vertices :
          /\ given' = Assigned(given, p, v)
          /\ shape' = Recalculated(Stored(shape, p, v),
                                   TriangleCalculate(Stored(shape, p, v)))
          /\ answer' = [op |-> "set", property |-> p,
                        out |-> Outcome(TriangleCalculate(Stored(shape, p, v)))]
    /\ UNCHANGED svars

\* circumcircle.a = v (b, c) for the class of circumcircle.py: the vertex is
\* stored; _initial_setting is True since __init__, so _calculate is not called.
SetCircumcircle ==
    /\ given.class = "circumcircle.Circumcircle" /\ shape.status = "ok"
    /\ Assignments(given) < MaxAssignments
    /\ \E p \in Properties, v \in Vertices :
          /\ given' = Assigned(given, p, v)
          /\ shape' = Stored(shape, p, v)
          /\ answer' = [op |-> "set", property |-> p, out |-> "ok"]
    /\ UNCHANGED svars

NextAssign ==
    \/ NewTriangleCircumcircle
    \/ NewCircumcircle
    \/ SetTriangleCircumcircle
    \/ SetCircumcircle

SpecAssign == Init /\ [][NextAssign]_vars

\* C11: after a Circumcircle is constructed, and after a later successful
\* assignment, the properties a, b and c are the first, second and third vertex
\* as the caller supplied them.
C11_VerticesKept ==
    (IsCircle /\ shape.status = "ok" /\ (answer = NoAnswer \/ answer.out = "ok"))
        => (shape.a = given.a /\ shape.b = given.b /\ shape.c = given.c)

\* C12: for the Circumcircle of circumcircle.py, after assignments that each
\* left the vertices non-collinear, center and radius are those of the circle
\* through the current a, b and c.
C12_Recalculated ==
    (given.class = "circumcircle.Circumcircle" /\ shape.status = "ok"
        /\ Assignments(given) >= 1 /\ Proper(given))
        => /\ shape.center = Circumcircle(shape.a, shape.b, shape.c).center
           /\ shape.radius = Circumcircle(shape.a, shape.b, shape.c).radius

(***************************************************************************)
(* Triangle (polygons/triangle.py): the vertices and the _properties       *)
(* cache.  A dict entry is Value(v), an absent key is None.  Here the       *)
(* record `given` is the caller's view of the vertices.                    *)
(***************************************************************************)
\* Vertices of cached triangles range over (0..MaxCornerCoord) x (0..1).
MaxCornerCoord == 1

Corners == {<<Q(i), Q(j)>> : i \in 0..MaxCornerCoord, j \in 0..1}

\* self._properties = {} and self._properties.clear().
EmptyProperties ==
    [vertices |-> None, sides |-> None, area |-> None, perimeter |-> None,
     angles |-> None, circumcircle |-> None]

\* Triangle.__init__: the empty cache, then the three setters.
TriangleInit(a, b, c) ==
    [status |-> "ok", a |-> a, b |-> b, c |-> c, properties |-> EmptyProperties]

\* Variant of SetVertex: the cache is not cleared.
SetVertexCacheKept(obj, p, v) == [obj EXCEPT ![p] = v]

\* The a, b or c setter with a Coordinate.
SetVertex(obj, p, v) == [obj EXCEPT ![p] = v, !.properties = EmptyProperties]

\* The dict built by the vertices property.
VerticesOf(obj) == [a |-> obj.a, b |-> obj.b, c |-> obj.c]

\* permutations(self.vertices.keys(), 2), and the dict built by the sides
\* property: the key ''.join(pair) is modelled by the pair, Segment(p, q) by
\* <<p, q>>.
SidePairs == {pair \in {"a", "b", "c"} \X {"a", "b", "c"} : pair[1] # pair[2]}
SidesOf(vs) == [pair \in SidePairs |-> <<vs[pair[1]], vs[pair[2]]>>]

\* operations.area(*vertices) for a sequence of vertices: the loop adds
\* (x[j] + x[i]) * (y[j] - y[i]) with j the index before i (the last one for
\* i = 0), the result is abs(area / 2).
RECURSIVE AreaLoop(_, _)
AreaLoop(vs, i) ==
    IF i = 0 THEN Zero
    ELSE RAdd(AreaLoop(vs, i - 1),
              RMul(RAdd(vs[IF i = 1 THEN Len(vs) ELSE i - 1][1], vs[i][1]),
                   RSub(vs[IF i = 1 THEN Len(vs) ELSE i - 1][2], vs[i][2])))

RAbs(p) == <<Abs(p[1]), p[2]>>

\* Variant of Area: the sign of the sum is kept.
AreaSigned(vs) == RDiv(AreaLoop(vs, Len(vs)), Q(2))

\* operations.area: abs(area / 2).
Area(vs) == RAbs(RDiv(AreaLoop(vs, Len(vs)), Q(2)))

\* The square of operations.distance(p, q).
SquaredDistance(p, q) == RAdd(RSq(RSub(p[1], q[1])), RSq(RSub(p[2], q[2])))

\* A sum of distances, kept symbolic: for every squared length, the number
\* of terms of that length.
SumOfDistances(lengths, terms) ==
    [d \in lengths |-> Cardinality({t \in terms : t[2] = d})]

\* set(self.sides.values()): Segment.__eq__ and __hash__ compare the sets of
\* end points, so the set keeps one segment per set of end points; each is
\* paired here with its squared length.
DistinctSides(sides) ==
    {<<{sides[k][1], sides[k][2]}, SquaredDistance(sides[k][1], sides[k][2])>>
        : k \in DOMAIN sides}

\* sum(side.distance for side in set(self.sides.values())).
PerimeterOf(sides) ==
    SumOfDistances({t[2] : t \in DistinctSides(sides)}, DistinctSides(sides))

AngleError == "ZeroDivisionError: float division by zero"

\* operations.angle(a, b, c), kept symbolic: the argument of math.acos,
\* (e2^2 + e3^2 - e1^2) / (2 * e2 * e3), from the squared distances d1, d2, d3.
AngleFrom(d1, d2, d3) ==
    [degrees_acos |-> Surd(RDiv(RSub(RAdd(d2, d3), d1), Q(2)), -1, RMul(d2, d3))]

Angle(a, b, c) ==
    AngleFrom(SquaredDistance(b, c), SquaredDistance(a, c), SquaredDistance(a, b))

\* The division of operations.angle(a, b, c) is by zero.
AngleFails(a, b, c) ==
    SquaredDistance(a, c) = Zero \/ SquaredDistance(a, b) = Zero

\* The dict built by the angles property (round(..., TOL_DIGITS) is kept
\* symbolic with the angle), or the error one of the three angles raises.
AnglesOf(obj) ==
    IF AngleFails(obj.b, obj.c, obj.a) \/ AngleFails(obj.c, obj.a, obj.b)
       \/ AngleFails(obj.a, obj.b, obj.c)
    THEN [kind |-> "error", error |-> AngleError]
    ELSE Value([a |-> Angle(obj.b, obj.c, obj.a),
                b |-> Angle(obj.c, obj.a, obj.b),
                c |-> Angle(obj.a, obj.b, obj.c)])

\* Circumcircle(self.a, self.b, self.c) as an entry, or the error it raises.
CircumcircleOf(made) ==
    IF made.status = "ok" THEN Value(made)
    ELSE [kind |-> "error", error |-> made.error]

\* The object after each property getter has filled its entry (an entry
\* that is present is kept; an error is raised before anything is stored).
Cached(entry, fresh) == IF entry.kind = "None" THEN fresh ELSE entry

WithVertices(obj) ==
    [obj EXCEPT !.properties.vertices = Cached(@, Value(VerticesOf(obj)))]

StoreSides(obj) ==
    [obj EXCEPT !.properties.sides = Value(SidesOf(obj.properties.vertices.val))]

WithSides(obj) ==
    IF obj.properties.sides.kind = "None" THEN StoreSides(WithVertices(obj))
    ELSE obj

WithArea(obj) ==
    [obj EXCEPT !.properties.area =
        Cached(@, Value(Area(<<obj.a, obj.b, obj.c>>)))]

StorePerimeter(obj) ==
    [obj EXCEPT !.properties.perimeter =
        Value(PerimeterOf(obj.properties.sides.val))]

WithPerimeter(obj) ==
    IF obj.properties.perimeter.kind = "None" THEN StorePerimeter(WithSides(obj))
    ELSE obj

StoreUnlessError(obj, key, entry) ==
    IF entry.kind = "error" THEN obj ELSE [obj EXCEPT !.properties[key] = entry]

WithAngles(obj) ==
    IF obj.properties.angles.kind = "None"
    THEN StoreUnlessError(obj, "angles", AnglesOf(obj))
    ELSE obj

WithCircumcircle(obj) ==
    IF obj.properties.circumcircle.kind = "None"
    THEN StoreUnlessError(obj, "circumcircle",
                          CircumcircleOf(TriangleCircumcircle(obj.a, obj.b, obj.c)))
    ELSE obj

\* What a getter returns: the entry it finds after filling the cache, or the
\* error raised while computing it.
Entry(obj, key, raised) ==
    IF obj.properties[key].kind = "None" THEN raised ELSE obj.properties[key]

\* The center or the radius of the cached Circumcircle.
Attribute(entry, name) ==
    IF entry.kind = "error" THEN entry ELSE Value(entry.val[name])

(***************************************************************************)
(* Operations on a Triangle.                                               *)
(***************************************************************************)
\* Triangle(a, b, c).
NewCachedTriangle ==
    /\ shape = NoShape
    /\ \E a, b, c \in Corners :
          /\ given' = [class |-> "polygons.triangle.Triangle",
                       a |-> a, b |-> b, c |-> c]
          /\ shape' = TriangleInit(a, b, c)
    /\ UNCHANGED <<answer, svars>>

IsCachedTriangle ==
    /\ given.class = "polygons.triangle.Triangle"
    /\ shape.status = "ok"
    /\ answer = NoAnswer

\* triangle.a = v, triangle.b = v or triangle.c = v.  The caller's view
\* follows the assignment; the call records whether the cache it cleared held
\* entries.
AssignVertex ==
    /\ IsCachedTriangle
    /\ \E p \in Properties, v \in Corners :
          /\ given' = [given EXCEPT ![p] = v]
          /\ shape' = SetVertex(shape, p, v)
          /\ answer' = [op |-> "set", property |-> p, value |-> v,
                        cleared |-> shape.properties # EmptyProperties]
    /\ UNCHANGED svars

ReadVertices ==
    /\ IsCachedTriangle
    /\ shape' = WithVertices(shape)
    /\ answer' = [op |-> "vertices", out |-> WithVertices(shape).properties.vertices]
    /\ UNCHANGED <<given, svars>>

ReadSides ==
    /\ IsCachedTriangle
    /\ shape' = WithSides(shape)
    /\ answer' = [op |-> "sides", out |-> WithSides(shape).properties.sides]
    /\ UNCHANGED <<given, svars>>

ReadArea ==
    /\ IsCachedTriangle
    /\ shape' = WithArea(shape)
    /\ answer' = [op |-> "area", out |-> WithArea(shape).properties.area]
    /\ UNCHANGED <<given, svars>>

ReadPerimeter ==
    /\ IsCachedTriangle
    /\ shape' = WithPerimeter(shape)
    /\ answer' = [op |-> "perimeter",
                  out |-> WithPerimeter(shape).properties.perimeter]
    /\ UNCHANGED <<given, svars>>

ReadAngles ==
    /\ IsCachedTriangle
    /\ shape' = WithAngles(shape)
    /\ answer' = [op |-> "angles",
                  out |-> Entry(WithAngles(shape), "angles", AnglesOf(shape))]
    /\ UNCHANGED <<given, svars>>

ReadCircumcenter ==
    /\ IsCachedTriangle
    /\ shape' = WithCircumcircle(shape)
    /\ answer' = [op |-> "circumcenter",
                  out |-> Attribute(
                      Entry(WithCircumcircle(shape), "circumcircle",
                            CircumcircleOf(TriangleCircumcircle(shape.a, shape.b,
                                                                shape.c))),
                      "center")]
    /\ UNCHANGED <<given, svars>>

ReadCircumradius ==
    /\ IsCachedTriangle
    /\ shape' = WithCircumcircle(shape)
    /\ answer' = [op |-> "circumradius",
                  out |-> Attribute(
                      Entry(WithCircumcircle(shape), "circumcircle",
                            CircumcircleOf(TriangleCircumcircle(shape.a, shape.b,
                                                                shape.c))),
                      "radius")]
    /\ UNCHANGED <<given, svars>>

NextTriangle ==
    \/ NewCachedTriangle
    \/ AssignVertex
    \/ ReadVertices
    \/ ReadSides
    \/ ReadArea
    \/ ReadPerimeter
    \/ ReadAngles
    \/ ReadCircumcenter
    \/ ReadCircumradius
    \/ ReturnAnswer

SpecTriangle == Init /\ [][NextTriangle]_vars

(***************************************************************************)
(* Properties of the Triangle cache.                                       *)
(***************************************************************************)
\* The value of each quantity computed from the vertices a, b, c alone.
FromVertices(op, a, b, c) ==
    CASE op = "vertices" -> Value([a |-> a, b |-> b, c |-> c])
      [] op = "sides" -> Value(SidesOf([a |-> a, b |-> b, c |-> c]))
      [] op = "area" -> Value(Area(<<a, b, c>>))
      [] op = "perimeter" -> Value(PerimeterOf(SidesOf([a |-> a, b |-> b, c |-> c])))
      [] op = "angles" -> AnglesOf([a |-> a, b |-> b, c |-> c])
      [] op = "circumcircle" -> CircumcircleOf(TriangleCircumcircle(a, b, c))
      [] op = "circumcenter" ->
            Attribute(CircumcircleOf(TriangleCircumcircle(a, b, c)), "center")
      [] op = "circumradius" ->
            Attribute(CircumcircleOf(TriangleCircumcircle(a, b, c)), "radius")

\* C15: every read of vertices, sides, area, perimeter, angles, circumcenter
\* and circumradius returns the value computed from the vertices current at
\* the read, no entry of the cache is older than the vertices, and after an
\* assignment to a vertex the cache is empty.
C15_CacheCoherent ==
    (given.class = "polygons.triangle.Triangle" /\ shape.status = "ok"
        /\ "properties" \in DOMAIN shape)
        => /\ \A key \in DOMAIN shape.properties :
                 shape.properties[key].kind = "None"
                 \/ shape.properties[key]
                      = FromVertices(key, shape.a, shape.b, shape.c)
           /\ (answer # NoAnswer /\ answer.op = "set")
                 => (shape.properties = EmptyProperties
                       /\ shape[answer.property] = answer.value)
           /\ (answer # NoAnswer /\ answer.op # "set")
                 => answer.out = FromVertices(answer.op, shape.a, shape.b, shape.c)

\* An assignment to a vertex has just emptied a cache that held entries.
C15_Witness ==
    /\ given.class = "polygons.triangle.Triangle" /\ shape.status = "ok"
    /\ answer # NoAnswer /\ answer.op = "set" /\ answer.cleared
    /\ shape.properties = EmptyProperties

(***************************************************************************)
(* polygons/polygon.py: the Polygon class.  A dict is a sequence of        *)
(* <<key, value>> pairs in insertion order; a Segment is the pair of its   *)
(* end points.                                                             *)
(***************************************************************************)
MaxPolygonArgs == 4

\* string.ascii_uppercase and string.ascii_lowercase.
Uppercase ==
    <<"A", "B", "C", "D", "E", "F", "G", "H", "I", "J", "K", "L", "M",
      "N", "O", "P", "Q", "R", "S", "T", "U", "V", "W", "X", "Y", "Z">>

Lowercase ==
    <<"a", "b", "c", "d", "e", "f", "g", "h", "i", "j", "k", "l", "m",
      "n", "o", "p", "q", "r", "s", "t", "u", "v", "w", "x", "y", "z">>

PolygonError == "ValueError: a polygon must have at least 3 vertices"

\* Variant of Deduplicate: of equal vertices the last occurrence is kept.
RECURSIVE DeduplicateKeepLast(_, _)
DeduplicateKeepLast(vertices, i) ==
    IF i = 0 THEN <<>>
    ELSE DeduplicateKeepLast(vertices, i - 1)
         \o (IF \E j \in (i + 1)..Len(vertices) : vertices[j] = vertices[i]
             THEN <<>> ELSE <<vertices[i]>>)

\* enumerate(vertices), up to the i-th argument.
Enumerate(vertices, i) == [k \in 1..i |-> <<k, vertices[k]>>]

\* vertex not in vertices[:i], for the pair <<i, vertex>>.
NotInPrefix(vertices, e) == ~\E j \in 1..(e[1] - 1) : vertices[j] = e[2]

\* The pairs of enumerate(vertices) the comprehension keeps.
KeptPairs(vertices, i) ==
    SelectSeq(Enumerate(vertices, i), LAMBDA e : NotInPrefix(vertices, e))

\* [vertex for i, vertex in ...]: the vertices of the pairs.
Second(pairs) == [k \in 1..Len(pairs) |-> pairs[k][2]]

\* [vertex for i, vertex in enumerate(vertices) if vertex not in vertices[:i]],
\* up to the i-th argument.
Deduplicate(vertices, i) == Second(KeptPairs(vertices, i))

\* ceil(log(n, base)) for n >= 1: the least p with base^p >= n.
RECURSIVE Padding(_, _, _)
Padding(n, base, power) ==
    IF power >= n THEN 0 ELSE 1 + Padding(n, base, power * base)

\* reversed(sequence).
Reversed(vs) == [k \in 1..Len(vs) |-> vs[Len(vs) + 1 - k]]

\* The characters by their order: ascii_uppercase and ascii_lowercase are
\* ascending, so a character compares as its position does.
Ord(characters) == [i \in 1..Len(characters) |-> i]

\* itertools.combinations_with_replacement(range(n), r): the r-tuples of
\* positions that do not decrease.
RECURSIVE CombinationsWithReplacement(_, _)
CombinationsWithReplacement(n, r) ==
    IF r = 0 THEN {<<>>}
    ELSE UNION {{Append(t, i) : i \in (IF r = 1 THEN 1 ELSE t[r - 1])..n}
                   : t \in CombinationsWithReplacement(n, r - 1)}

\* cr(pool, r): the elements of the pool at those positions.
Cr(pool, r) ==
    {[k \in 1..r |-> pool[t[k]]] : t \in CombinationsWithReplacement(Len(pool), r)}

\* The k-th of the r-tuples over 1..n in lexicographic order.
LexTuple(n, r, k) == [j \in 1..r |-> (((k - 1) \div (n ^ (r - j))) % n) + 1]

\* sorted(tuples) for a set of r-tuples over 1..n.
Sorted(tuples, n, r) ==
    SelectSeq([k \in 1..(n ^ r) |-> LexTuple(n, r, k)], LAMBDA t : t \in tuples)

\* sorted(set(list(cr(characters, padding))
\*            + list(cr(reversed(characters), padding)))).
SortedLetters(characters, padding) ==
    Sorted(Cr(Ord(characters), padding)
           \cup Cr(Reversed(Ord(characters)), padding),
           Len(characters), padding)

\* ''.join(letters), up to the k-th letter.
RECURSIVE Join(_, _, _)
Join(characters, letters, k) ==
    IF k = 0 THEN "" ELSE Join(characters, letters, k - 1) \o characters[letters[k]]

\* The sorted annotations of the given padding.
JoinAll(characters, tuples, padding) ==
    [k \in 1..Len(tuples) |-> Join(characters, tuples[k], padding)]

Annotations(characters, padding) ==
    JoinAll(characters, SortedLetters(characters, padding), padding)

\* dict(zip(annotations, values)).
Zip(annotations, values) ==
    [k \in 1..(IF Len(annotations) < Len(values) THEN Len(annotations)
               ELSE Len(values)) |-> <<annotations[k], values[k]>>]

\* The labelling both setters apply to their list.
Annotated(characters, values) ==
    Zip(Annotations(characters, Padding(Len(values), Len(characters), 1)),
        values)

\* dict.values().
Values(dict) == [k \in DOMAIN dict |-> dict[k][2]]

\* dict[key].
Lookup(dict, key) == dict[CHOOSE k \in DOMAIN dict : dict[k][1] = key][2]

Keys(dict) == {dict[k][1] : k \in DOMAIN dict}

\* Variant of SidesAround: the closing side is left out.
SidesAroundOpen(vertices) ==
    [i \in 1..(Len(vertices) - 1) |-> <<vertices[i], vertices[i + 1]>>]

\* The list of sides __init__ builds: consecutive vertices, then the side
\* from the last vertex to the first.
SidesAround(vertices) ==
    [i \in 1..(Len(vertices) - 1) |-> <<vertices[i], vertices[i + 1]>>]
    \o << <<vertices[Len(vertices)], vertices[1]>> >>

\* Polygon.__init__ on the deduplicated list: the vertices setter raises
\* before any side is built.
PolygonOn(vertices) ==
    IF Len(vertices) < 3 THEN Failed(PolygonError)
    ELSE [status |-> "ok",
          vertices |-> Annotated(Uppercase, vertices),
          sides |-> Annotated(Lowercase, SidesAround(vertices))]

PolygonInit(vertices) == PolygonOn(Deduplicate(vertices, Len(vertices)))

\* operations.distance summed over the values of a dict of segments, kept
\* symbolic as SumOfDistances keeps it.
DistanceTerms(sides) ==
    {<<k, SquaredDistance(sides[k][1], sides[k][2])>> : k \in DOMAIN sides}

SumOver(terms) == SumOfDistances({t[2] : t \in terms}, terms)

\* Polygon.perimeter: sum(side.distance for side in self.sides.values()).
PolygonPerimeter(obj) == SumOver(DistanceTerms(Values(obj.sides)))

\* Polygon.area: op.area(*self.vertices.values()).
PolygonArea(obj) == Area(Values(obj.vertices))

\* itertools.combinations(coordinates, 2), by position.
Combinations(coordinates) ==
    {p \in (1..Len(coordinates)) \X (1..Len(coordinates)) : p[1] < p[2]}

\* operations.perimeter: sum(distance(*pair) for pair in combinations(...)).
Perimeter(coordinates) ==
    SumOver({<<p, SquaredDistance(coordinates[p[1]], coordinates[p[2]])>>
                : p \in Combinations(coordinates)})

PolygonArgs ==
    UNION {[1..n -> Corners] : n \in 0..MaxPolygonArgs}

\* polygon = Polygon(*vertices).
NewPolygon ==
    /\ shape = NoShape
    /\ \E vertices \in PolygonArgs :
          /\ given' = [class |-> "polygons.polygon.Polygon",
                       vertices |-> vertices]
          /\ shape' = PolygonInit(vertices)
    /\ UNCHANGED <<answer, svars>>

IsPolygon ==
    /\ given.class = "polygons.polygon.Polygon"
    /\ answer = NoAnswer

\* polygon.area.
ReadPolygonArea ==
    /\ IsPolygon
    /\ shape.status = "ok"
    /\ answer' = [op |-> "area", out |-> PolygonArea(shape)]
    /\ UNCHANGED <<given, shape, svars>>

\* polygon.perimeter.
ReadPolygonPerimeter ==
    /\ IsPolygon
    /\ shape.status = "ok"
    /\ answer' = [op |-> "perimeter", out |-> PolygonPerimeter(shape)]
    /\ UNCHANGED <<given, shape, svars>>

\* operations.area(*vertices) on the arguments as they were passed.
CallArea ==
    /\ IsPolygon
    /\ answer' = [op |-> "operations.area", out |-> Area(given.vertices)]
    /\ UNCHANGED <<given, shape, svars>>

\* operations.perimeter(*vertices) on the arguments as they were passed.
CallPerimeter ==
    /\ IsPolygon
    /\ answer' = [op |-> "operations.perimeter",
                  out |-> Perimeter(given.vertices)]
    /\ UNCHANGED <<given, shape, svars>>

NextPolygon ==
    \/ NewPolygon
    \/ ReadPolygonArea
    \/ ReadPolygonPerimeter
    \/ CallArea
    \/ CallPerimeter
    \/ ReturnAnswer

SpecPolygon == Init /\ [][NextPolygon]_vars

(***************************************************************************)
(* Properties of Polygon.                                                  *)
(***************************************************************************)
IsPolygonState == given.class = "polygons.polygon.Polygon"

\* The distinct vertices among the arguments.
DistinctArgs == {given.vertices[i] : i \in DOMAIN given.vertices}

\* The position of the first occurrence of a vertex among the arguments.
FirstAt(v) ==
    CHOOSE i \in DOMAIN given.vertices :
        /\ given.vertices[i] = v
        /\ \A j \in 1..(i - 1) : given.vertices[j] # v

\* The k-th distinct vertex among the arguments, in input order.
NthDistinct(k) ==
    CHOOSE v \in DistinctArgs :
        Cardinality({w \in DistinctArgs : FirstAt(w) < FirstAt(v)}) = k - 1

\* C16: Polygon(*vertices) raises ValueError exactly when fewer than 3
\* distinct vertices are passed; otherwise it is constructed, and its
\* vertices are the distinct arguments, each once, in the order of their
\* first occurrences.
C16_Deduplicated ==
    IsPolygonState =>
        IF Cardinality(DistinctArgs) < 3
        THEN shape = Failed(PolygonError)
        ELSE /\ shape.status = "ok"
             /\ Len(shape.vertices) = Cardinality(DistinctArgs)
             /\ {shape.vertices[k][2] : k \in DOMAIN shape.vertices}
                    = DistinctArgs
             /\ \A k, l \in DOMAIN shape.vertices :
                    k < l => FirstAt(shape.vertices[k][2])
                                 < FirstAt(shape.vertices[l][2])

\* A polygon built from arguments that repeat a vertex between two others.
C16_Witness ==
    /\ IsPolygonState
    /\ shape.status = "ok"
    /\ Len(given.vertices) = 4
    /\ given.vertices[1] = given.vertices[3]
    /\ Values(shape.vertices)
           = <<given.vertices[1], given.vertices[2], given.vertices[4]>>

\* C17: a polygon of n distinct vertices maps the k-th uppercase letter to
\* the k-th vertex and has exactly n sides, the k-th lowercase letter mapped
\* to the segment from the k-th vertex to the next one, the last side
\* running from the last vertex to the first.
C17_Labelled ==
    (IsPolygonState /\ shape.status = "ok") =>
        /\ Keys(shape.vertices)
               = {Uppercase[k] : k \in 1..Cardinality(DistinctArgs)}
        /\ Keys(shape.sides)
               = {Lowercase[k] : k \in 1..Cardinality(DistinctArgs)}
        /\ Len(shape.sides) = Cardinality(DistinctArgs)
        /\ Len(shape.vertices) = Cardinality(DistinctArgs)
        /\ \A k \in 1..Cardinality(DistinctArgs) :
              /\ Lookup(shape.vertices, Uppercase[k])
                     = NthDistinct(k)
              /\ Lookup(shape.sides, Lowercase[k])
                     = <<NthDistinct(k),
                         NthDistinct((k % Cardinality(DistinctArgs)) + 1)>>

\* A quadrilateral whose side d closes it from D to A.
C17_Witness ==
    /\ IsPolygonState
    /\ shape.status = "ok"
    /\ Len(shape.sides) = 4
    /\ Lookup(shape.sides, "d")
           = <<Lookup(shape.vertices, "D"), Lookup(shape.vertices, "A")>>
    /\ Lookup(shape.vertices, "D") # Lookup(shape.vertices, "A")

\* The sum over k of x_k * y_(k+1) - x_(k+1) * y_k for the first i vertices,
\* the vertex after the last being the first.
RECURSIVE ShoelaceSum(_, _)
ShoelaceSum(vs, i) ==
    IF i = 0 THEN Zero
    ELSE RAdd(ShoelaceSum(vs, i - 1),
              RSub(RMul(vs[i][1], vs[(i % Len(vs)) + 1][2]),
                   RMul(vs[(i % Len(vs)) + 1][1], vs[i][2])))

Shoelace(vs) == RDiv(RAbs(ShoelaceSum(vs, Len(vs))), Q(2))

\* The vertex list started r places later.
Rotated(vs, r) == [k \in 1..Len(vs) |-> vs[((k + r - 1) % Len(vs)) + 1]]

\* C18: Polygon.area and operations.area return the absolute shoelace value
\* of the vertex list in its cyclic order, for every list of 3 or more
\* vertices; the value is not negative and every rotation and the reversal
\* of the list have the same area.
C18_Shoelace ==
    /\ (IsPolygonState /\ answer.op = "area") =>
          /\ answer.out = Shoelace(Values(shape.vertices))
          /\ RLe(Zero, answer.out)
    /\ (IsPolygonState /\ answer.op = "operations.area"
        /\ Len(given.vertices) >= 3) =>
          /\ answer.out = Shoelace(given.vertices)
          /\ RLe(Zero, answer.out)
          /\ Area(Reversed(given.vertices)) = answer.out
          /\ \A r \in 1..Len(given.vertices) :
                /\ Area(Rotated(given.vertices, r)) = answer.out
                /\ Area(Rotated(Reversed(given.vertices), r)) = answer.out

\* The area of a quadrilateral listed clockwise, whose signed sum and that
\* of its reversal have opposite signs.
C18_Witness ==
    /\ IsPolygonState
    /\ answer.op = "area"
    /\ Len(shape.vertices) = 4
    /\ answer.out = One
    /\ RLt(ShoelaceSum(Values(shape.vertices), 4), Zero)
    /\ RLt(Zero, ShoelaceSum(Reversed(Values(shape.vertices)), 4))

\* The value of a symbolic sum of distances, as the rational coefficient of
\* every square-free radicand: sqrt(n / m) = (s / m) * sqrt(f) where
\* n * m = s * s * f and f has no square factor.  Square roots of distinct
\* square-free integers are linearly independent over the rationals, so two
\* sums are equal numbers exactly when these coefficients agree.
SquarePart(k) ==
    CHOOSE s \in 1..(ISqrt(k) + 1) :
        /\ k % (s * s) = 0
        /\ \A t \in (s + 1)..(ISqrt(k) + 1) : k % (t * t) # 0

Radicand(d) == (d[1] * d[2]) \div (SquarePart(d[1] * d[2]) * SquarePart(d[1] * d[2]))

RootCoefficient(d) == Rat(SquarePart(d[1] * d[2]), d[2])

RECURSIVE CoefficientSum(_, _)
CoefficientSum(sum, lengths) ==
    IF lengths = {} THEN Zero
    ELSE RAdd(RMul(Q(sum[CHOOSE d \in lengths : TRUE]),
                   RootCoefficient(CHOOSE d \in lengths : TRUE)),
              CoefficientSum(sum, lengths \ {CHOOSE d \in lengths : TRUE}))

NumberOf(sum) ==
    [f \in {Radicand(d) : d \in {e \in DOMAIN sum : e # Zero}} |->
        CoefficientSum(sum, {d \in DOMAIN sum : d # Zero /\ Radicand(d) = f})]

\* The sum of the distances between consecutive vertices of a list, the
\* last one joined to the first.
AroundSum(vs) ==
    SumOver({<<k, SquaredDistance(vs[k], vs[(k % Len(vs)) + 1])>>
                : k \in 1..Len(vs)})

DistinctList(vs) == \A i, j \in DOMAIN vs : i # j => vs[i] # vs[j]

\* C19: for every list of 3 or more distinct Coordinates
\* operations.perimeter returns the sum of the distances between consecutive
\* vertices, the last joined to the first, which is the perimeter of the
\* Polygon built from the same list.
C19_PerimeterAround ==
    (/\ IsPolygonState
     /\ answer.op = "operations.perimeter"
     /\ Len(given.vertices) >= 3
     /\ DistinctList(given.vertices)) =>
        /\ NumberOf(answer.out) = NumberOf(AroundSum(given.vertices))
        /\ NumberOf(answer.out) = NumberOf(PolygonPerimeter(shape))

\* Polygon.perimeter itself is the sum over the consecutive sides.
PolygonPerimeterAround ==
    (IsPolygonState /\ answer.op = "perimeter") =>
        NumberOf(answer.out) = NumberOf(AroundSum(Values(shape.vertices)))

(***************************************************************************)
(* polygons/triangle.py: Triangle.__contains__.                            *)
(***************************************************************************)
MaxProbeQuarters == 4

\* The points tested against a triangle: a grid of quarters.
Probes == {<<Rat(i, 4), Rat(j, 4)>> : i, j \in 0..MaxProbeQuarters}

\* The divisor shared by the first two barycentric coordinates.
Denominator(a, b, c) ==
    RAdd(RMul(RSub(b[2], c[2]), RSub(a[1], c[1])),
         RMul(RSub(c[1], b[1]), RSub(a[2], c[2])))

\* The dividends of the barycentric coordinates a and b of value.
DividendA(b, c, value) ==
    RAdd(RMul(RSub(b[2], c[2]), RSub(value[1], c[1])),
         RMul(RSub(c[1], b[1]), RSub(value[2], c[2])))

DividendB(a, c, value) ==
    RAdd(RMul(RSub(c[2], a[2]), RSub(value[1], c[1])),
         RMul(RSub(a[1], c[1]), RSub(value[2], c[2])))

UnitInterval(t) == RLe(Zero, t) /\ RLe(t, One)

\* return 0 <= a <= 1 and 0 <= b <= 1 and 0 <= c <= 1, with c = 1 - a - b.
InUnitIntervals(a, b) ==
    UnitInterval(a) /\ UnitInterval(b) /\ UnitInterval(RSub(RSub(One, a), b))

\* Triangle.__contains__: the division raises for a degenerate triangle.
Contains(obj, value) ==
    IF Denominator(obj.a, obj.b, obj.c) = Zero THEN Failed(ZeroDivisionError)
    ELSE Value(InUnitIntervals(
             RDiv(DividendA(obj.b, obj.c, value),
                  Denominator(obj.a, obj.b, obj.c)),
             RDiv(DividendB(obj.a, obj.c, value),
                  Denominator(obj.a, obj.b, obj.c))))

\* point in triangle.
CallContains ==
    /\ IsCachedTriangle
    /\ \E point \in Probes :
          answer' = [op |-> "contains", point |-> point,
                     out |-> Contains(shape, point)]
    /\ UNCHANGED <<given, shape, svars>>

NextContains ==
    \/ NewCachedTriangle
    \/ CallContains
    \/ ReturnAnswer

SpecContains == Init /\ [][NextContains]_vars

(***************************************************************************)
(* Properties of Triangle.__contains__.                                    *)
(***************************************************************************)
\* Twice the signed area of the triangle p, q, r.
Cross(p, q, r) ==
    RSub(RMul(RSub(q[1], p[1]), RSub(r[2], p[2])),
         RMul(RSub(q[2], p[2]), RSub(r[1], p[1])))

\* The point lies on the same strict side of the three edges.
StrictlyInside(point, a, b, c) ==
    \/ /\ RLt(Zero, Cross(a, b, point))
       /\ RLt(Zero, Cross(b, c, point))
       /\ RLt(Zero, Cross(c, a, point))
    \/ /\ RLt(Cross(a, b, point), Zero)
       /\ RLt(Cross(b, c, point), Zero)
       /\ RLt(Cross(c, a, point), Zero)

\* The point lies inside the triangle or on its boundary.
InsideOrOnBoundary(point, a, b, c) ==
    \/ /\ RLe(Zero, Cross(a, b, point))
       /\ RLe(Zero, Cross(b, c, point))
       /\ RLe(Zero, Cross(c, a, point))
    \/ /\ RLe(Cross(a, b, point), Zero)
       /\ RLe(Cross(b, c, point), Zero)
       /\ RLe(Cross(c, a, point), Zero)

\* C20: for a non-degenerate triangle `point in triangle` is True exactly
\* for the points strictly inside it, and so False for every point on an
\* edge or at a vertex.
C20_BoundaryExcluded ==
    (/\ answer.op = "contains"
     /\ Cross(shape.a, shape.b, shape.c) # Zero) =>
        answer.out = Value(StrictlyInside(answer.point, shape.a, shape.b, shape.c))

\* What the comparisons compute instead: the closed triangle.
ContainsClosedTriangle ==
    (/\ answer.op = "contains"
     /\ Cross(shape.a, shape.b, shape.c) # Zero) =>
        answer.out = Value(InsideOrOnBoundary(answer.point, shape.a, shape.b,
                                              shape.c))

(***************************************************************************)
(* Vertical-side avoidance of Circumcircle._calculate.                     *)
(***************************************************************************)
\* With the vertices v left by the two exchanges: neither v[1] -> v[2] nor
\* v[1] -> v[3] is vertical, both unit normals have a non-zero y component
\* and the divisor vertical["ab"].x + vertical["ac"].x is not zero.
NoVerticalSide(v) ==
    /\ v[2][1] # v[1][1]
    /\ v[3][1] # v[1][1]
    /\ Unitary(Displacement(v[1], v[2]))[2].c # Zero
    /\ Unitary(Displacement(v[1], v[3]))[2].c # Zero
    /\ RAdd(VerticalAb(Unitary(Displacement(v[1], v[2]))),
            VerticalAc(Unitary(Displacement(v[1], v[3])))) # Zero

C24_WitnessFirst ==
    /\ IsCircle
    /\ SignedArea(given.a, given.b, given.c) # Zero
    /\ given.a[1] = given.b[1]
    /\ shape.status = "ok"
    /\ shape.a = given.c
    /\ shape.c = given.a

(***************************************************************************)
(* The unidimensional spline on its own: _UnidimensionalSpline(x, y) for   *)
(* strictly increasing knots x with unequal gaps.                          *)
(***************************************************************************)
MaxKnots == 3

MaxGap == 2

MaxValue == 1

\* The knots 0, g_1, g_1 + g_2, ... of a list of gaps.
KnotsOf(gaps) == <<Zero>> \o CumSum([i \in DOMAIN gaps |-> Q(gaps[i])])

KnotLists ==
    {<<>>} \cup
    UNION {{KnotsOf(g) : g \in [1..(n - 1) -> 1..MaxGap]} : n \in 1..MaxKnots}

ValueLists(n) == [1..n -> {Q(v) : v \in (-1)..MaxValue}]

\* s = _UnidimensionalSpline(x, y).
NewUnidimensionalSpline ==
    /\ shape = NoShape
    /\ \E x \in KnotLists :
          \E y \in ValueLists(Len(x)) :
             /\ given' = [class |-> "functions.spline._UnidimensionalSpline",
                          x |-> x, y |-> y]
             /\ shape' = UnidimensionalSpline(x, y)
    /\ UNCHANGED <<answer, svars>>

SpecUni == Init /\ [][NewUnidimensionalSpline]_vars

(***************************************************************************)
(* Properties of the linear system and of the fitted cubics.               *)
(***************************************************************************)
IsFitted ==
    /\ given.class = "functions.spline._UnidimensionalSpline"
    /\ shape.status = "ok"

\* The matrix A built for the knots x, entries indexed from 0.
MatrixOf(x) == CalcMatrixA(Len(x), Diff(x)).m

\* h_i = knots[i+1] - knots[i], i from 0.
Gap(x, i) == RSub(x[i + 2], x[i + 1])

\* The first and the last row hold a single 1, on the diagonal.
BoundaryRows(A, n) ==
    \A j \in 0..(n - 1) :
        /\ A[<<0, j>>] = (IF j = 0 THEN One ELSE Zero)
        /\ A[<<n - 1, j>>] = (IF j = n - 1 THEN One ELSE Zero)

\* Row i holds h_(i-1), 2 (h_(i-1) + h_i) and upper around the diagonal, and
\* zeros elsewhere.
InteriorRow(A, x, n, i, upper) ==
    \A j \in 0..(n - 1) :
        A[<<i, j>>] =
            (IF j = i - 1 THEN Gap(x, i - 1)
             ELSE IF j = i THEN RMul(Q(2), RAdd(Gap(x, i - 1), Gap(x, i)))
             ELSE IF j = i + 1 THEN upper
             ELSE Zero)

\* C25 as amended: A is n x n, its first and last rows hold only
\* A[0,0] = 1 and A[n-1,n-1] = 1, and every other row i has
\* A[i,i] = 2 (h_(i-1) + h_i), A[i,i-1] = h_(i-1) and A[i,i+1] = h_i, all
\* other entries zero.
C25_Matrix ==
    IsFitted =>
        /\ DOMAIN MatrixOf(given.x)
               = (0..(Len(given.x) - 1)) \X (0..(Len(given.x) - 1))
        /\ BoundaryRows(MatrixOf(given.x), Len(given.x))
        /\ \A i \in 1..(Len(given.x) - 2) :
              InteriorRow(MatrixOf(given.x), given.x, Len(given.x), i,
                          Gap(given.x, i))

\* C25 as stated: the same, with A[i,i+1] = h_(i-1) for the rows
\* 1 <= i <= n-2.
C25_MatrixAsStated ==
    IsFitted =>
        /\ BoundaryRows(MatrixOf(given.x), Len(given.x))
        /\ \A i \in 1..(Len(given.x) - 2) :
              InteriorRow(MatrixOf(given.x), given.x, Len(given.x), i,
                          Gap(given.x, i - 1))

\* A spline fitted on three knots with unequal gaps.
C25_Witness ==
    /\ IsFitted
    /\ Len(given.x) = 3
    /\ Gap(given.x, 0) # Gap(given.x, 1)
    /\ MatrixOf(given.x)[<<1, 2>>] = Gap(given.x, 1)

\* The cubics of the segments before and after knot k (k from 1, so that
\* segment k - 1 ends and segment k starts there) agree in value, in first
\* derivative and in second derivative.
SmoothAt(s, k) ==
    /\ Cubic(s.a[k - 1], s.b[k - 1], s.c[k - 1], s.d[k - 1],
             RSub(s.x[k], s.x[k - 1]))
           = Cubic(s.a[k], s.b[k], s.c[k], s.d[k], Zero)
    /\ CubicD1(s.a[k - 1], s.b[k - 1], s.c[k - 1], RSub(s.x[k], s.x[k - 1]))
           = CubicD1(s.a[k], s.b[k], s.c[k], Zero)
    /\ CubicD2(s.a[k - 1], s.b[k - 1], RSub(s.x[k], s.x[k - 1]))
           = CubicD2(s.a[k], s.b[k], Zero)

\* C26: for 3 or more strictly increasing knots, at every interior knot the
\* cubic of the segment ending there, evaluated at the length of the segment,
\* equals the cubic of the segment starting there, evaluated at 0, in value,
\* first derivative and second derivative.
C26_Smooth ==
    (IsFitted /\ Len(given.x) >= 3) =>
        \A k \in 2..(Len(given.x) - 1) : SmoothAt(shape, k)

\* A fitted spline on unequal gaps that bends at its interior knot: the
\* second derivative there is not zero.
C26_Witness ==
    /\ IsFitted
    /\ Len(given.x) = 3
    /\ Gap(given.x, 0) # Gap(given.x, 1)
    /\ CubicD2(shape.a[2], shape.b[2], Zero) # Zero
    /\ CubicD1(shape.a[1], shape.b[1], shape.c[1], Gap(given.x, 0)) = shape.c[2]

(***************************************************************************)
(* Failed assignments to the Circumcircle of polygons/triangle.py.         *)
(***************************************************************************)
\* C27: an assignment to a, b or c of a Circumcircle of polygons/triangle.py
\* that raises the collinear ValueError leaves a, b, c, center and radius as
\* they were, and in every state the radius is the distance from the center
\* to each of the current a, b and c.
C27_AtomicAssignment ==
    [][(/\ given.class = "polygons.triangle.Circumcircle"
        /\ shape.status = "ok"
        /\ shape'.status = "ok")
       => /\ (answer'.op = "set" /\ answer'.out = CollinearError)
                 => shape' = shape
          /\ Distance(shape'.center, shape'.a) = shape'.radius
          /\ Distance(shape'.center, shape'.b) = shape'.radius
          /\ Distance(shape'.center, shape'.c) = shape'.radius]_vars

(***************************************************************************)
(* core/lines.py: Line and Segment.  The slope of a vertical line is       *)
(* (b.y - a.y) / 1e-14; numbers that involve it are kept as polynomials    *)
(* <<c0, c1, c2>> = c0 + c1 E + c2 E^2 in E = 1 / 1e-14 with rational      *)
(* coefficients, and quotients of them as [num, den].  E exceeds every     *)
(* ratio of coefficients that occurs, so the sign of a polynomial is the   *)
(* sign of its highest non-zero coefficient.                               *)
(***************************************************************************)
PConst(r) == <<r, Zero, Zero>>

PZero == PConst(Zero)

PAdd(p, q) == <<RAdd(p[1], q[1]), RAdd(p[2], q[2]), RAdd(p[3], q[3])>>

PSub(p, q) == <<RSub(p[1], q[1]), RSub(p[2], q[2]), RSub(p[3], q[3])>>

PScale(r, p) == <<RMul(r, p[1]), RMul(r, p[2]), RMul(r, p[3])>>

\* The product of two polynomials of degree at most 1.
PMul(p, q) ==
    <<RMul(p[1], q[1]),
      RAdd(RMul(p[1], q[2]), RMul(p[2], q[1])),
      RMul(p[2], q[2])>>

RSign(r) == IF r[1] > 0 THEN 1 ELSE IF r[1] < 0 THEN -1 ELSE 0

PSign(p) ==
    IF p[3] # Zero THEN RSign(p[3])
    ELSE IF p[2] # Zero THEN RSign(p[2])
    ELSE RSign(p[1])

\* lo <= num / den, and num / den <= hi, for rationals lo and hi.
FracGe(f, lo) == PSign(PSub(f.num, PScale(lo, f.den))) * PSign(f.den) >= 0

FracLe(f, hi) == PSign(PSub(f.num, PScale(hi, f.den))) * PSign(f.den) <= 0

\* lo <= f <= hi or hi <= f <= lo.
Between(f, lo, hi) ==
    \/ FracGe(f, lo) /\ FracLe(f, hi)
    \/ FracGe(f, hi) /\ FracLe(f, lo)

\* self._properties = {} of Line.__init__, and the object it leaves.
NoProperties == [slope |-> None, distance |-> None]

LineInit(a, b) == [a |-> a, b |-> b, properties |-> NoProperties]

\* The value Line.slope computes from the end points.
SlopeOf(a, b) ==
    IF RSub(b[1], a[1]) = Zero
    THEN <<Zero, RSub(b[2], a[2]), Zero>>
    ELSE PConst(RDiv(RSub(b[2], a[2]), RSub(b[1], a[1])))

\* Line.slope: the cached value if there is one.
Slope(obj) ==
    IF obj.properties.slope = None THEN SlopeOf(obj.a, obj.b)
    ELSE obj.properties.slope

\* The object after a read of slope.
WithSlope(obj) == [obj EXCEPT !.properties.slope = Slope(obj)]

\* The Coordinate(x, y) Line.intersect builds from the slopes s and l:
\* x = (line.b.y - self.b.y + s * self.b.x - l * line.b.x) / (s - l) and
\* y = s * (x - self.b.x) + self.b.y.
IntersectionOf(s, l, self, line) ==
    [x |-> [num |-> PAdd(PSub(PConst(RSub(line.b[2], self.b[2])),
                              PScale(line.b[1], l)),
                         PScale(self.b[1], s)),
            den |-> PSub(s, l)],
     y |-> [num |-> PAdd(PMul(s,
                              PSub(PAdd(PSub(PConst(RSub(line.b[2], self.b[2])),
                                             PScale(line.b[1], l)),
                                        PScale(self.b[1], s)),
                                   PScale(self.b[1], PSub(s, l)))),
                         PScale(self.b[2], PSub(s, l))),
            den |-> PSub(s, l)]]

\* Line.intersect(self, line).
LineIntersect(self, line) ==
    IF Slope(self) = Slope(line) THEN None
    ELSE IntersectionOf(Slope(self), Slope(line), self, line)

\* The bounding-box test of Segment.intersect on the intersection found.
InBoxes(p, self, line) ==
    /\ Between(p.x, self.a[1], self.b[1])
    /\ Between(p.y, self.a[2], self.b[2])
    /\ Between(p.x, line.a[1], line.b[1])
    /\ Between(p.y, line.a[2], line.b[2])

Boxed(p, self, line) ==
    IF p = None THEN None
    ELSE IF InBoxes(p, self, line) THEN p ELSE None

\* Segment.intersect(self, line).
SegmentIntersect(self, line) == Boxed(LineIntersect(self, line), self, line)

LineClasses == {"core.lines.Line", "core.lines.Segment"}

\* self = Line(a, b); line = Line(c, d), or the same with Segment.
NewLines ==
    /\ shape = NoShape
    /\ \E class \in LineClasses, a, b, c, d \in Corners :
          /\ given' = [class |-> class, self |-> <<a, b>>, line |-> <<c, d>>]
          /\ shape' = [status |-> "ok", self |-> LineInit(a, b),
                       line |-> LineInit(c, d)]
    /\ UNCHANGED <<answer, svars>>

IsLines == given.class \in LineClasses /\ answer = NoAnswer

\* self.intersect(line): both slopes are read, and so cached.
CallIntersect ==
    /\ IsLines
    /\ shape' = [shape EXCEPT !.self = WithSlope(shape.self),
                              !.line = WithSlope(shape.line)]
    /\ answer' = [op |-> "intersect",
                  out |-> IF given.class = "core.lines.Line"
                          THEN LineIntersect(shape.self, shape.line)
                          ELSE SegmentIntersect(shape.self, shape.line)]
    /\ UNCHANGED <<given, svars>>

NextLines ==
    \/ NewLines
    \/ CallIntersect
    \/ ReturnAnswer

SpecLines == Init /\ [][NextLines]_vars

(***************************************************************************)
(* Properties of Line.intersect and Segment.intersect.                     *)
(***************************************************************************)
\* The cross product of the directions of two pairs of points: zero when the
\* lines through them are parallel.
DirectionCross(l, m) ==
    RSub(RMul(RSub(l[2][1], l[1][1]), RSub(m[2][2], m[1][2])),
         RMul(RSub(l[2][2], l[1][2]), RSub(m[2][1], m[1][1])))

\* The Coordinate returned lies on the line through the pair l.
OutOnLine(out, l) ==
    PSub(PScale(RSub(l[2][1], l[1][1]),
                PSub(out.y.num, PScale(l[1][2], out.y.den))),
         PScale(RSub(l[2][2], l[1][2]),
                PSub(out.x.num, PScale(l[1][1], out.x.den)))) = PZero

\* The Coordinate returned is the rational point p.
IsPoint(out, p) ==
    /\ out # None
    /\ PSub(out.x.num, PScale(p[1], out.x.den)) = PZero
    /\ PSub(out.y.num, PScale(p[2], out.y.den)) = PZero

ProperLines == given.self[1] # given.self[2] /\ given.line[1] # given.line[2]

\* C21: Line.intersect returns None whenever the two lines are parallel, two
\* distinct vertical lines included whatever the points that define them,
\* and otherwise returns a point that lies on both lines.
C21_LineIntersection ==
    (/\ given.class = "core.lines.Line"
     /\ ProperLines
     /\ answer.op = "intersect") =>
        IF DirectionCross(given.self, given.line) = Zero
        THEN answer.out = None
        ELSE /\ answer.out # None
             /\ OutOnLine(answer.out, given.self)
             /\ OutOnLine(answer.out, given.line)

\* What holds of Line.intersect when neither line is vertical.
LineIntersectionNoVertical ==
    (/\ given.class = "core.lines.Line"
     /\ ProperLines
     /\ given.self[1][1] # given.self[2][1]
     /\ given.line[1][1] # given.line[2][1]
     /\ answer.op = "intersect") =>
        IF DirectionCross(given.self, given.line) = Zero
        THEN answer.out = None
        ELSE /\ answer.out # None
             /\ OutOnLine(answer.out, given.self)
             /\ OutOnLine(answer.out, given.line)

\* The end points the two segments share.
SharedEndpoints ==
    {given.self[1], given.self[2]} \cap {given.line[1], given.line[2]}

\* C22: Segment.intersect returns a Coordinate only if it lies on both
\* supporting lines and within both segments, and two segments that are not
\* parallel and share an end point intersect at that end point.
C22_SegmentIntersection ==
    (/\ given.class = "core.lines.Segment"
     /\ ProperLines
     /\ answer.op = "intersect") =>
        /\ answer.out # None =>
              /\ OutOnLine(answer.out, given.self)
              /\ OutOnLine(answer.out, given.line)
              /\ InBoxes(answer.out, shape.self, shape.line)
        /\ DirectionCross(given.self, given.line) # Zero =>
              \A e \in SharedEndpoints : IsPoint(answer.out, e)

\* The first half of C22 alone: whatever Segment.intersect returns lies on
\* both supporting lines and within both segments.
SegmentIntersectionSound ==
    (/\ given.class = "core.lines.Segment"
     /\ ProperLines
     /\ answer.op = "intersect"
     /\ answer.out # None) =>
        /\ OutOnLine(answer.out, given.self)
        /\ OutOnLine(answer.out, given.line)

(***************************************************************************)
(* core/coordinates.py: Coordinate.__truediv__ and __floordiv__.           *)
(***************************************************************************)
MaxComponentHalves == 2

\* The coordinates operated on: components that are multiples of 1/2.
Components == {Rat(k, 2) : k \in (-MaxComponentHalves)..MaxComponentHalves}

\* math.floor of a rational.
RFloor(r) == Q(r[1] \div r[2])

\* Variant of TrueDiv: the y component is not negated.
TrueDivSameSign(self, value) ==
    <<RMul(self[1], value[1]), RMul(self[2], value[2])>>

\* Coordinate.__truediv__: Coordinate(self._x * value.x, self._y * -value.y).
TrueDiv(self, value) ==
    <<RMul(self[1], value[1]), RMul(self[2], RNeg(value[2]))>>

\* Coordinate.__floor__.
Floor(self) == <<RFloor(self[1]), RFloor(self[2])>>

\* Coordinate.__floordiv__: floor(self / value).
FloorDiv(self, value) == Floor(TrueDiv(self, value))

\* a = Coordinate(x, y); b = Coordinate(u, v).
NewCoordinates ==
    /\ shape = NoShape
    /\ \E a, b \in Components \X Components :
          /\ given' = [class |-> "core.coordinates.Coordinate", a |-> a, b |-> b]
          /\ shape' = [status |-> "ok", a |-> a, b |-> b]
    /\ UNCHANGED <<answer, svars>>

IsCoordinates ==
    given.class = "core.coordinates.Coordinate" /\ answer = NoAnswer

\* a / b.
CallTrueDiv ==
    /\ IsCoordinates
    /\ answer' = [op |-> "truediv", out |-> TrueDiv(shape.a, shape.b)]
    /\ UNCHANGED <<given, shape, svars>>

\* a // b.
CallFloorDiv ==
    /\ IsCoordinates
    /\ answer' = [op |-> "floordiv", out |-> FloorDiv(shape.a, shape.b)]
    /\ UNCHANGED <<given, shape, svars>>

NextCoordinate ==
    \/ NewCoordinates
    \/ CallTrueDiv
    \/ CallFloorDiv
    \/ ReturnAnswer

SpecCoordinate == Init /\ [][NextCoordinate]_vars

(***************************************************************************)
(* Properties of Coordinate division.                                      *)
(***************************************************************************)
\* n is the greatest integer not above r.
IsFloorOf(n, r) ==
    /\ n[2] = 1
    /\ RLe(n, r)
    /\ RLt(r, RAdd(n, One))

C23_WitnessZero ==
    /\ given.class = "core.coordinates.Coordinate"
    /\ answer.op = "truediv"
    /\ given.a = <<One, One>>
    /\ given.b = <<Zero, Zero>>
    /\ answer.out = <<Zero, Zero>>

(***************************************************************************)
(* core/lines.py: equality and hashing of Line and Segment.  The hash of a *)
(* tuple is kept as the tuple of the hashes of its elements and a sum of   *)
(* hashes as the bag of its terms: hashes found equal here are equal       *)
(* numbers, hashes found different are different up to a collision.        *)
(***************************************************************************)
\* Coordinate.__hash__: hash((self._x, self._y)).
CoordinateHash(p) == [tuple |-> <<p[1], p[2]>>]

\* Line.__hash__: hash((self.a, self.b)).
LineHash(obj) == [tuple |-> <<CoordinateHash(obj.a), CoordinateHash(obj.b)>>]

\* Segment.__hash__: hash(hash(self.a) + hash(self.b)).
SegmentHash(obj) ==
    [sum |-> [h \in {CoordinateHash(obj.a), CoordinateHash(obj.b)} |->
                IF obj.a = obj.b THEN 2 ELSE 1]]

HashOf(class, obj) ==
    IF class = "core.lines.Line" THEN LineHash(obj) ELSE SegmentHash(obj)

\* Line.__eq__ and Segment.__eq__: {self.a, self.b} == {value.a, value.b}.
LineEq(obj, value) == {obj.a, obj.b} = {value.a, value.b}

\* len({x, y}): a set keeps one of two objects with equal hashes that compare
\* equal.
SetLen(class, x, y) ==
    IF HashOf(class, x) = HashOf(class, y) /\ LineEq(x, y) THEN 1 ELSE 2

\* self == line.
CallEq ==
    /\ IsLines
    /\ answer' = [op |-> "eq", out |-> LineEq(shape.self, shape.line)]
    /\ UNCHANGED <<given, shape, svars>>

\* hash(self), hash(line).
CallHash ==
    /\ IsLines
    /\ answer' = [op |-> "hash",
                  out |-> <<HashOf(given.class, shape.self),
                            HashOf(given.class, shape.line)>>]
    /\ UNCHANGED <<given, shape, svars>>

\* len({self, line}).
CallSetLen ==
    /\ IsLines
    /\ answer' = [op |-> "len",
                  out |-> SetLen(given.class, shape.self, shape.line)]
    /\ UNCHANGED <<given, shape, svars>>

NextEq ==
    \/ NewLines
    \/ CallEq
    \/ CallHash
    \/ CallSetLen
    \/ ReturnAnswer

SpecEq == Init /\ [][NextEq]_vars

(***************************************************************************)
(* Properties of equality and hashing.                                     *)
(***************************************************************************)
\* The two objects were built from the same two end points, in either order.
SameEndpoints ==
    {given.self[1], given.self[2]} = {given.line[1], given.line[2]}

\* Equal objects have equal hashes and make a set of one element.
HashAgrees ==
    /\ answer.op = "eq" => (answer.out <=> SameEndpoints)
    /\ (answer.op = "hash" /\ SameEndpoints) => answer.out[1] = answer.out[2]
    /\ (answer.op = "len" /\ SameEndpoints) => answer.out = 1

\* C28: Line(a, b) == Line(b, a) and Segment(a, b) == Segment(b, a), and two
\* Line objects, or two Segment objects, that compare equal have equal hashes
\* and make one element of a set.
C28_EqualHashes == given.class \in LineClasses => HashAgrees

\* The part of C28 that is about Segment.
SegmentHashAgrees == given.class = "core.lines.Segment" => HashAgrees

(***************************************************************************)
(* Cached values and Coordinates modified in place.                        *)
(***************************************************************************)
\* Segment.distance: the cached value if there is one.
SegmentDistance(obj) ==
    IF obj.properties.distance = None THEN Distance(obj.a, obj.b)
    ELSE obj.properties.distance

\* The object after a read of distance.
WithDistance(obj) == [obj EXCEPT !.properties.distance = SegmentDistance(obj)]

\* coord.x = v (i = 1) or coord.y = v (i = 2), also written coord[i - 1] = v:
\* the Coordinate changes, the objects that hold it are not told.
SetComponent(coord, i, v) == [coord EXCEPT ![i] = v]

\* The values assigned to components.
ComponentValues == {c[1] : c \in Corners} \cup {c[2] : c \in Corners}

\* line = Line(a, b) or Segment(a, b).
NewLine ==
    /\ shape = NoShape
    /\ \E class \in LineClasses, a, b \in Corners :
          /\ given' = [class |-> class, self |-> <<a, b>>]
          /\ shape' = [status |-> "ok", self |-> LineInit(a, b)]
    /\ UNCHANGED <<answer, svars>>

\* line.slope.
ReadSlope ==
    /\ IsLines
    /\ shape' = [shape EXCEPT !.self = WithSlope(@)]
    /\ answer' = [op |-> "slope", out |-> Slope(shape.self)]
    /\ UNCHANGED <<given, svars>>

\* segment.distance.
ReadDistance ==
    /\ IsLines
    /\ given.class = "core.lines.Segment"
    /\ shape' = [shape EXCEPT !.self = WithDistance(@)]
    /\ answer' = [op |-> "distance", out |-> SegmentDistance(shape.self)]
    /\ UNCHANGED <<given, svars>>

\* line.a.x = v, line.a.y = v, line.b.x = v or line.b.y = v.
SetEndpointComponent ==
    /\ IsLines
    /\ \E end \in {"a", "b"}, i \in 1..2, v \in ComponentValues :
          /\ shape' = [shape EXCEPT !.self[end] = SetComponent(@, i, v)]
          /\ given' = [given EXCEPT !.self[IF end = "a" THEN 1 ELSE 2] =
                                        SetComponent(@, i, v)]
    /\ UNCHANGED <<answer, svars>>

\* triangle.a.x = v, ..., triangle.c.y = v.
SetVertexComponent ==
    /\ IsCachedTriangle
    /\ \E p \in Properties, i \in 1..2, v \in ComponentValues :
          /\ shape' = [shape EXCEPT ![p] = SetComponent(@, i, v)]
          /\ given' = [given EXCEPT ![p] = SetComponent(@, i, v)]
    /\ UNCHANGED <<answer, svars>>

NextCache ==
    \/ NewLine
    \/ ReadSlope
    \/ ReadDistance
    \/ SetEndpointComponent
    \/ NewCachedTriangle
    \/ ReadArea
    \/ SetVertexComponent
    \/ ReturnAnswer

SpecCache == Init /\ [][NextCache]_vars

\* C29: after a Coordinate held by a Line, a Segment or a Triangle has been
\* modified in place, a read of Line.slope, Segment.distance or Triangle.area
\* returns the value for the coordinates as they are at the read, also when
\* the value had been read before.
C29_CacheFollowsCoordinates ==
    /\ (given.class \in LineClasses /\ answer.op = "slope") =>
          answer.out = SlopeOf(shape.self.a, shape.self.b)
    /\ (given.class \in LineClasses /\ answer.op = "distance") =>
          answer.out = Distance(shape.self.a, shape.self.b)
    /\ (given.class = "polygons.triangle.Triangle" /\ answer.op = "area") =>
          answer.out = Value(Area(<<shape.a, shape.b, shape.c>>))

(***************************************************************************)
(* Polygons of many vertices: labels of more than one letter.              *)
(***************************************************************************)
MaxSides == 30
MaxVertices == 6527

\* n distinct vertices, on a parabola.
ManyVertices(n) == [i \in 1..n |-> <<Q(i), Q(i * i)>>]

\* The numbers of vertices: the small ones, the two around the square of
\* the alphabet's length, and the largest.
PolygonSizes ==
    (3..MaxSides)
    \cup {Len(Uppercase) ^ 2, Len(Uppercase) ^ 2 + 1}
    \cup {MaxVertices}

\* polygon = Polygon(*vertices) with n distinct vertices.
NewPolygonOf ==
    /\ shape = NoShape
    /\ \E n \in PolygonSizes :
          /\ given' = [class |-> "polygons.polygon.Polygon",
                       vertices |-> ManyVertices(n)]
          /\ shape' = PolygonInit(ManyVertices(n))
    /\ UNCHANGED <<answer, svars>>

\* len(polygon).
CallLen ==
    /\ IsPolygon
    /\ shape.status = "ok"
    /\ answer' = [op |-> "len", out |-> Len(shape.vertices)]
    /\ UNCHANGED <<given, shape, svars>>

\* len(polygon.vertices).
ReadVerticesLen ==
    /\ IsPolygon
    /\ shape.status = "ok"
    /\ answer' = [op |-> "len(vertices)", out |-> Len(shape.vertices)]
    /\ UNCHANGED <<given, shape, svars>>

\* len(polygon.sides).
ReadSidesLen ==
    /\ IsPolygon
    /\ shape.status = "ok"
    /\ answer' = [op |-> "len(sides)", out |-> Len(shape.sides)]
    /\ UNCHANGED <<given, shape, svars>>

NextLabels ==
    \/ NewPolygonOf
    \/ CallLen
    \/ ReadVerticesLen
    \/ ReadSidesLen
    \/ ReturnAnswer

SpecLabels == Init /\ [][NextLabels]_vars

\* The number of labels the setters generate for a list of n entries.
LabelCount(n) ==
    Len(Annotations(Uppercase, Padding(n, Len(Uppercase), 1)))

IsLabelled == given.class = "polygons.polygon.Polygon" /\ shape.status = "ok"

\* C30: for every number n >= 3 of distinct vertices the label list has at
\* least n pairwise distinct labels, and the polygon keeps n vertices and
\* n sides: len(polygon), len(polygon.vertices) and len(polygon.sides) are n.
C30_NothingLost ==
    IsLabelled =>
       /\ LabelCount(Len(given.vertices)) >= Len(given.vertices)
       /\ Cardinality(Keys(shape.vertices)) = Len(given.vertices)
       /\ Cardinality(Keys(shape.sides)) = Len(given.vertices)
       /\ answer # NoAnswer => answer.out = Len(given.vertices)

\* The same for the polygons whose labels have at most two letters: every
\* pair of letters is a label, so nothing is lost up to Len(Uppercase)^2
\* vertices.
NothingLostWithTwoLetters ==
    (IsLabelled /\ Len(given.vertices) <= Len(Uppercase) ^ 2) =>
       /\ Cardinality(Keys(shape.vertices)) = Len(given.vertices)
       /\ Cardinality(Keys(shape.sides)) = Len(given.vertices)
       /\ answer # NoAnswer => answer.out = Len(given.vertices)

====
